---- MODULE Spec2Model ----
(***************************************************************************)
(* A gravity platformer: geometry utilities, the seeded level generator,   *)
(* the player's surface/flight kinetics and the per-frame game loop.       *)
(*                                                                         *)
(* Fixed-point conventions (JavaScript numbers are doubles; the model is   *)
(* integer arithmetic at a fixed resolution):                              *)
(*   lengths and positions   deci-pixels  (1 px  = 10 units)               *)
(*   velocities              deci-pixels per second                        *)
(*   accelerations           deci-pixels per second^2                      *)
(*   angles                  milli-degrees (1 deg = 1000 units)            *)
(*   angular speeds          milli-degrees per second                      *)
(*   time steps              milliseconds                                  *)
(*   gravity strengths       thousandths                                   *)
(*   random()                the integer LCG state s, value s / 233280     *)
(***************************************************************************)
EXTENDS Integers, Sequences, FiniteSets, TLC

VARIABLES
    gameState,     \* the gameState object without level and player
    currentLevel,  \* gameState.currentLevel
    player,        \* gameState.player
    obs,           \* history variable: what the last executed frame did
    segment,       \* input and result of one call of lineSegmentIntersectsCircle
    generated      \* the levels returned by successive calls of generateLevel

vars == <<gameState, currentLevel, player, obs, segment, generated>>

(***************************************************************************)
(* Program constants                                                       *)
(***************************************************************************)
CANVAS_WIDTH == 8000
CANVAS_HEIGHT == 6000
LcgModulus == 233280

(***************************************************************************)
(* Arithmetic helpers                                                      *)
(***************************************************************************)
Abs(a) == IF a < 0 THEN -a ELSE a

Sign(a) == IF a > 0 THEN 1 ELSE IF a < 0 THEN -1 ELSE 0

Min(a, b) == IF a < b THEN a ELSE b

Max(a, b) == IF a > b THEN a ELSE b

\* a / b rounded to the nearest integer (b > 0); the fixed-point stand-in for
\* a floating-point quotient.
Rnd(a, b) == (2 * a + b) \div (2 * b)

\* a * m / 1000 rounded to the nearest integer, without forming a * m.
Scaled(a, m) == (a \div 1000) * m + Rnd((a % 1000) * m, 1000)

\* u1 / v1 < u2 / v2 for naturals u1, u2 and positive v1, v2, decided exactly
\* without forming the cross products (which exceed the integer width).
RECURSIVE FracLess(_, _, _, _)
FracLess(u1, v1, u2, v2) ==
    LET q1 == u1 \div v1
        q2 == u2 \div v2
        r1 == u1 % v1
        r2 == u2 % v2
    IN  IF q1 # q2 THEN q1 < q2
        ELSE IF r2 = 0 THEN FALSE
        ELSE IF r1 = 0 THEN TRUE
        ELSE FracLess(v2, r2, v1, r1)

\* p * p < a * c for naturals p, a, c, decided exactly.
SquareLessThanProduct(p, a, c) ==
    IF a = 0 \/ c = 0 THEN FALSE
    ELSE IF p = 0 THEN TRUE
    ELSE FracLess(p, a, c, p)

\* floor(sqrt(n)) for a natural n, by bisection.
RECURSIVE SqrtSearch(_, _, _)
SqrtSearch(n, lo, hi) ==
    IF lo >= hi THEN lo
    ELSE LET mid == (lo + hi + 1) \div 2
         IN  IF mid * mid <= n THEN SqrtSearch(n, mid, hi)
             ELSE SqrtSearch(n, lo, mid - 1)

Sqrt(n) == SqrtSearch(n, 0, Min(n, 46340))

(***************************************************************************)
(* Trigonometry at whole-degree resolution, in thousandths.                *)
(* Math.sin / Math.cos are modelled by Bhaskara's rational approximation   *)
(* (absolute error below 0.002), Math.atan2 by the whole degree whose      *)
(* direction vector is closest to (dx, dy).                                *)
(***************************************************************************)
SinHalfTurn(d) == Rnd(4000 * d * (180 - d), 40500 - d * (180 - d))

Sin(deg) ==
    LET m == deg % 360
    IN  IF m <= 180 THEN SinHalfTurn(m) ELSE -SinHalfTurn(m - 180)

Cos(deg) == Sin(deg + 90)

\* The largest whole degree d in lo..hi whose direction is not past the
\* first-quadrant vector (ax, ay): ay cos d - ax sin d >= 0, by bisection.
RECURSIVE Atan2Search(_, _, _, _)
Atan2Search(ay, ax, lo, hi) ==
    IF lo >= hi THEN lo
    ELSE LET mid == (lo + hi + 1) \div 2
         IN  IF ay * Cos(mid) - ax * Sin(mid) >= 0
             THEN Atan2Search(ay, ax, mid, hi)
             ELSE Atan2Search(ay, ax, lo, mid - 1)

\* Of two neighbouring whole degrees, the one whose direction is closer to
\* the first-quadrant vector (ax, ay).
Atan2Nearest(ay, ax, below, above) ==
    IF ax * Cos(above) + ay * Sin(above) > ax * Cos(below) + ay * Sin(below)
    THEN above ELSE below

\* Math.atan2(dy, dx) in whole degrees, in -180..180, from the angle acute of
\* (|dx|, |dy|); atan2(0, 0) = 0.
Atan2Quadrant(dy, dx, acute) ==
    IF dx = 0 /\ dy = 0 THEN 0
    ELSE IF dx >= 0 /\ dy >= 0 THEN acute
    ELSE IF dx < 0 /\ dy >= 0 THEN 180 - acute
    ELSE IF dx < 0 THEN acute - 180
    ELSE -acute

Atan2Acute(ay, ax, below) == Atan2Nearest(ay, ax, below, Min(90, below + 1))

Atan2(dy, dx) ==
    Atan2Quadrant(dy, dx, Atan2Acute(Abs(dy), Abs(dx), Atan2Search(Abs(dy), Abs(dx), 0, 90)))

\* centre + cos/sin(deg) * dist
PolarX(cx, deg, dist) == cx + Rnd(Cos(deg) * dist, 1000)

PolarY(cy, deg, dist) == cy + Rnd(Sin(deg) * dist, 1000)

(***************************************************************************)
(* Geometry utilities                                                      *)
(***************************************************************************)
\* Squared distance between two points.
DistSquared(x1, y1, x2, y2) == (x1 - x2) * (x1 - x2) + (y1 - y2) * (y1 - y2)

\* A faulty variant: only the end points are tested.
lineSegmentEndpointsOnly(x1, y1, x2, y2, cx, cy, radius) ==
    \/ DistSquared(x1, y1, cx, cy) <= radius * radius
    \/ DistSquared(x2, y2, cx, cy) <= radius * radius

\* A faulty variant that forgets the spanning case (t1 < 0 /\ t2 > 1).
lineSegmentNoSpan(x1, y1, x2, y2, cx, cy, radius) ==
    LET dx == x2 - x1
        dy == y2 - y1
        a == dx * dx + dy * dy
        b == 2 * ((x1 - cx) * dx + (y1 - cy) * dy)
        c == DistSquared(x1, y1, cx, cy) - radius * radius
    IN  IF a = 0 THEN c <= 0
        ELSE IF c > 0 /\ SquareLessThanProduct(Abs(b \div 2), a, c) THEN FALSE
        ELSE \/ (b <= 0 /\ c >= 0) /\ (b + 2 * a >= 0 \/ a + b + c <= 0)
             \/ (b <= 0 \/ c <= 0) /\ (b + 2 * a >= 0 /\ a + b + c >= 0)

\* The code solves a t^2 + b t + c = 0 and tests the roots
\*   t1 = (-b - sqrt(D)) / 2a,  t2 = (-b + sqrt(D)) / 2a,  D = b^2 - 4ac.
\* With a > 0 and sqrt(D) >= 0 each comparison of the code is decided exactly
\* by squaring:
\*   D < 0    <=>  c > 0 /\ (b/2)^2 < a c
\*   t1 >= 0  <=>  b <= 0 /\ c >= 0
\*   t1 <= 1  <=>  b + 2a >= 0 \/ a + b + c <= 0
\*   t2 >= 0  <=>  b <= 0 \/ c <= 0
\*   t2 <= 1  <=>  b + 2a >= 0 /\ a + b + c >= 0
lineSegmentIntersectsCircle(x1, y1, x2, y2, cx, cy, radius) ==
    LET dx == x2 - x1
        dy == y2 - y1
        lengthSquared == dx * dx + dy * dy
        fx == x1 - cx
        fy == y1 - cy
        a == lengthSquared
        halfB == fx * dx + fy * dy
        b == 2 * halfB
        c == (fx * fx + fy * fy) - radius * radius
        discriminantNegative == c > 0 /\ SquareLessThanProduct(Abs(halfB), a, c)
        t1GeqZero == b <= 0 /\ c >= 0
        t1LeqOne == b + 2 * a >= 0 \/ a + b + c <= 0
        t2GeqZero == b <= 0 \/ c <= 0
        t2LeqOne == b + 2 * a >= 0 /\ a + b + c >= 0
    IN  IF lengthSquared = 0 THEN (fx * fx + fy * fy) <= radius * radius
        ELSE IF discriminantNegative THEN FALSE
        ELSE \/ t1GeqZero /\ t1LeqOne
             \/ t2GeqZero /\ t2LeqOne
             \/ ~t1GeqZero /\ ~t2LeqOne

\* Opposite-edge teleport, each axis independently.
wrapScreenPosition(x, y) ==
    [x |-> IF x < 0 THEN CANVAS_WIDTH ELSE IF x > CANVAS_WIDTH THEN 0 ELSE x,
     y |-> IF y < 0 THEN CANVAS_HEIGHT ELSE IF y > CANVAS_HEIGHT THEN 0 ELSE y]

(***************************************************************************)
(* Seeded level generator                                                  *)
(*                                                                         *)
(* The closure variable randSeed is threaded explicitly: every operator    *)
(* that draws takes the current LCG state and returns the state after its  *)
(* draws.  A draw random() is the new state s, standing for s / 233280.    *)
(***************************************************************************)
\* randSeed = (randSeed * 9301 + 49297) % 233280, with 9301 = 93 * 100 + 1 so
\* that no intermediate product leaves the integer width.
random(randSeed) ==
    LET s == randSeed % LcgModulus
    IN  ((((s * 93) % LcgModulus) * 100) + s + 49297) % LcgModulus

\* Math.floor(random() * num / den) for the draw s.
RandFloor(s, num, den) == (s * num) \div (LcgModulus * den)

\* random() * range, where range is a length in deci-pixels.
RandScale(s, range) == (s * range) \div LcgModulus

\* new Planet(radius, x, y, gravityStrength)
Planet(radius, x, y, gravityStrength) ==
    [radius |-> radius, x |-> x, y |-> y, gravityStrength |-> gravityStrength]

\* Math.pow(radius / baseRadius, 3) with baseRadius = 35, in thousandths.
CubeStrength(radius) == (radius * radius * radius) \div 42875

\* The tier configuration of generateLevel, with the LCG state after the
\* draws the tier makes while building it.
TierConfig(levelNumber, randSeed) ==
    LET s1 == random(randSeed)
        s2 == random(s1)
        s3 == random(s2)
    IN  IF levelNumber <= 5 THEN
            [planetCount |-> <<3, 4>>, sizeRange |-> <<25, 45>>, minSpacing |-> 1200,
             blackHoleCount |-> 0, goalHops |-> 1, archetype |-> "simple",
             seed |-> randSeed]
        ELSE IF levelNumber <= 15 THEN
            [planetCount |-> <<4, 5>>, sizeRange |-> <<20, 55>>, minSpacing |-> 1400,
             blackHoleCount |-> 0,
             goalHops |-> IF 2 * s1 < LcgModulus THEN 1 ELSE 2,
             archetype |-> IF 10 * s2 < 7 * LcgModulus THEN "simple" ELSE "binary",
             seed |-> s2]
        ELSE IF levelNumber <= 30 THEN
            [planetCount |-> <<5, 6>>, sizeRange |-> <<15, 65>>, minSpacing |-> 1600,
             blackHoleCount |-> 0,
             goalHops |-> RandFloor(s1, 2, 1) + 2,
             archetype |-> <<"simple", "binary", "gauntlet", "slingshot">>[RandFloor(s2, 4, 1) + 1],
             seed |-> s2]
        ELSE IF levelNumber <= 50 THEN
            [planetCount |-> <<6, 7>>, sizeRange |-> <<12, 75>>, minSpacing |-> 1800,
             blackHoleCount |-> 0,
             goalHops |-> RandFloor(s1, 2, 1) + 3,
             archetype |-> <<"binary", "gauntlet", "slingshot", "void", "maze">>[RandFloor(s2, 5, 1) + 1],
             seed |-> s2]
        ELSE IF levelNumber <= 75 THEN
            [planetCount |-> <<6, 8>>, sizeRange |-> <<10, 85>>, minSpacing |-> 2000,
             blackHoleCount |-> IF 10 * s1 < 3 * LcgModulus THEN 1 ELSE 0,
             goalHops |-> RandFloor(s2, 2, 1) + 3,
             archetype |-> <<"gauntlet", "void", "maze", "giant", "precision">>[RandFloor(s3, 5, 1) + 1],
             seed |-> s3]
        ELSE
            [planetCount |-> <<6, 9>>, sizeRange |-> <<8, 90>>, minSpacing |-> 2200,
             blackHoleCount |-> Min(levelNumber \div 50, 3),
             goalHops |-> RandFloor(s1, 3, 1) + 3,
             archetype |-> <<"void", "maze", "giant", "precision", "chaos">>[RandFloor(s2, 5, 1) + 1],
             seed |-> s2]

\* The spacing test of the rejection samplers: the candidate keeps
\* dist >= existing.radius + radius + spacing from every accepted planet.
SpacingValid(planets, radius, x, y, spacing) ==
    \A i \in 1..Len(planets) :
        LET minDist == planets[i].radius + radius + spacing
        IN  DistSquared(x, y, planets[i].x, planets[i].y) >= minDist * minDist

\* Per-archetype parameters of the common rejection-sampling loop:
\* the radius drawn from s, the canvas margin, the spacing actually enforced.
SampleRadius(kind, config, s) ==
    LET lo == config.sizeRange[1]
        hi == config.sizeRange[2]
    IN  IF kind = "binary" THEN 10 * (lo + RandFloor(s, (hi - lo) * 6, 10))
        ELSE IF kind = "giant" THEN 10 * (lo + RandFloor(s, lo * 2, 1))
        ELSE IF kind = "precision" THEN 10 * (lo + RandFloor(s, lo * 5, 10))
        ELSE 10 * (lo + RandFloor(s, hi - lo, 1))

SampleMargin(kind) ==
    IF kind = "precision" THEN 300 ELSE IF kind = "chaos" THEN 150 ELSE 200

\* A faulty variant: ten times the configured spacing is enforced.
SampleSpacingTenfold(kind, config) == 10 * config.minSpacing

SampleSpacing(kind, config) ==
    IF kind = "maze" THEN (config.minSpacing * 7) \div 10
    ELSE IF kind = "precision" THEN (config.minSpacing * 12) \div 10
    ELSE IF kind = "chaos" THEN (config.minSpacing * 8) \div 10
    ELSE config.minSpacing

RECURSIVE PlaceAttemptWithin(_, _, _, _, _, _)

\* One candidate of the placement loop, after its draws: accepted, or on to
\* the next attempt.
PlaceCandidate(kind, config, planets, attempts, limit, s3, radius, x, y) ==
    IF SpacingValid(planets, radius, x, y, SampleSpacing(kind, config))
    THEN IF kind = "chaos"
         THEN [planets |-> Append(planets, Planet(radius, x, y,
                               (CubeStrength(radius) * (700 + RandScale(random(s3), 600))) \div 1000)),
               seed |-> random(s3), placed |-> TRUE]
         ELSE [planets |-> Append(planets, Planet(radius, x, y, CubeStrength(radius))),
               seed |-> s3, placed |-> TRUE]
    ELSE PlaceAttemptWithin(kind, config, planets, s3, attempts + 1, limit)

\* The candidate's position from the draws s2 and s3, inside the margin.
PlacePosition(kind, config, planets, attempts, limit, s2, s3, radius, margin) ==
    PlaceCandidate(kind, config, planets, attempts, limit, s3, radius,
                   radius + margin + RandScale(s2, CANVAS_WIDTH - 2 * radius - 2 * margin),
                   radius + margin + RandScale(s3, CANVAS_HEIGHT - 2 * radius - 2 * margin))

\* The three draws of one attempt: radius, x, y.
PlaceDraw(kind, config, planets, attempts, limit, s1, s2) ==
    PlacePosition(kind, config, planets, attempts, limit, s2, random(s2),
                  SampleRadius(kind, config, s1), SampleMargin(kind))

\* The attempts of the placement loop from number attempts up to limit.
\* Result: the state after them, with the planet appended when one was valid.
PlaceAttemptWithin(kind, config, planets, seed, attempts, limit) ==
    IF attempts >= limit THEN [planets |-> planets, seed |-> seed, placed |-> FALSE]
    ELSE PlaceDraw(kind, config, planets, attempts, limit, random(seed), random(random(seed)))

RECURSIVE PlaceAttempt(_, _, _, _, _)

\* After ten attempts: done when one placed the planet, else the next ten.
PlaceAttemptAfter(kind, config, planets, attempts, r) ==
    IF r.placed THEN [planets |-> r.planets, seed |-> r.seed]
    ELSE PlaceAttempt(kind, config, planets, r.seed, attempts + 10)

\* A faulty variant: a planet that found no position in its attempts is pushed
\* all the same, as an empty planet.
PlaceAttemptUnplaced(kind, config, planets, seed, attempts) ==
    IF attempts >= 100 THEN [planets |-> Append(planets, Planet(0, 0, 0, 0)), seed |-> seed]
    ELSE PlaceAttemptAfter(kind, config, planets, attempts,
                           PlaceAttemptWithin(kind, config, planets, seed, attempts, attempts + 10))

\* The while (!validPosition && attempts < 100) loop for one planet, evaluated
\* ten attempts at a time.
PlaceAttempt(kind, config, planets, seed, attempts) ==
    IF attempts >= 100 THEN [planets |-> planets, seed |-> seed]
    ELSE PlaceAttemptAfter(kind, config, planets, attempts,
                           PlaceAttemptWithin(kind, config, planets, seed, attempts, attempts + 10))

\* for (let i = 0; i < count; i++) { ...rejection sampling... }, from the
\* placement [planets, seed] so far.
RECURSIVE PlaceMany(_, _, _, _)
PlaceMany(kind, config, placement, count) ==
    IF count <= 0 THEN placement
    ELSE PlaceMany(kind, config,
                   PlaceAttempt(kind, config, placement.planets, placement.seed, 0),
                   count - 1)

\* The goal overlaps a planet's buffer zone: distance to the planet's centre
\* below planet.radius + goalRadius (20) + minBuffer (40).
GoalCollision(planets, goalX, goalY) ==
    \E i \in 1..Len(planets) :
        DistSquared(goalX, goalY, planets[i].x, planets[i].y)
            < (planets[i].radius + 200 + 400) * (planets[i].radius + 200 + 400)

RECURSIVE GoalRerollWithin(_, _, _, _, _, _, _, _)

\* One re-roll from the draws s1 (angle) and s2 (distance).
GoalRerolled(planets, goalPlanet, goalDistance, s2, attempts, limit, newAngle, newDistance) ==
    GoalRerollWithin(planets, goalPlanet, goalDistance,
                     PolarX(goalPlanet.x, newAngle, newDistance),
                     PolarY(goalPlanet.y, newAngle, newDistance),
                     s2, attempts + 1, limit)

\* newAngle = random() * 2 pi; newDistance = goalDistance + (random() - 0.5) * 60.
GoalRerollDraw(planets, goalPlanet, goalDistance, s1, s2, attempts, limit) ==
    GoalRerolled(planets, goalPlanet, goalDistance, s2, attempts, limit,
                 RandFloor(s1, 360, 1), goalDistance + RandScale(s2, 600) - 300)

\* The iterations of the re-roll loop from number attempts up to limit.
GoalRerollWithin(planets, goalPlanet, goalDistance, goalX, goalY, seed, attempts, limit) ==
    IF ~GoalCollision(planets, goalX, goalY)
    THEN [x |-> goalX, y |-> goalY, seed |-> seed, attempts |-> attempts, clear |-> TRUE]
    ELSE IF attempts >= limit
    THEN [x |-> goalX, y |-> goalY, seed |-> seed, attempts |-> attempts, clear |-> FALSE]
    ELSE GoalRerollDraw(planets, goalPlanet, goalDistance, random(seed), random(random(seed)),
                        attempts, limit)

RECURSIVE GoalReroll(_, _, _, _, _, _, _)

\* After ten iterations: done when the goal is clear or the attempts are used
\* up, else the next ten.
GoalRerollAfter(planets, goalPlanet, goalDistance, r) ==
    IF r.clear \/ r.attempts >= 100
    THEN [x |-> r.x, y |-> r.y, seed |-> r.seed, attempts |-> r.attempts]
    ELSE GoalReroll(planets, goalPlanet, goalDistance, r.x, r.y, r.seed, r.attempts)

\* while (attempts < maxAttempts) { if (!collision) break; re-roll; attempts++ },
\* evaluated ten iterations at a time.
GoalReroll(planets, goalPlanet, goalDistance, goalX, goalY, seed, attempts) ==
    GoalRerollAfter(planets, goalPlanet, goalDistance,
                    GoalRerollWithin(planets, goalPlanet, goalDistance, goalX, goalY,
                                     seed, attempts, Min(100, attempts + 10)))

\* The goal pushed to goalPlanet.radius + goalRadius + minBuffer + 20 along angle.
GoalPushed(goalPlanet, angle) ==
    [x |-> PolarX(goalPlanet.x, angle, goalPlanet.radius + 800),
     y |-> PolarY(goalPlanet.y, angle, goalPlanet.radius + 800)]

\* The forced displacement after 100 failed re-rolls: only the goal planet
\* itself is considered.
GoalForced(goalPlanet, g) ==
    IF g.attempts >= 100
       /\ DistSquared(g.x, g.y, goalPlanet.x, goalPlanet.y)
            < (goalPlanet.radius + 600) * (goalPlanet.radius + 600)
    THEN GoalPushed(goalPlanet, Atan2(g.y - goalPlanet.y, g.x - goalPlanet.x))
    ELSE [x |-> g.x, y |-> g.y]

\* Clamp goal to screen: goalRadius (20) + goalMargin (30) from every edge.
GoalClamp(g) ==
    [x |-> Max(500, Min(CANVAS_WIDTH - 500, g.x)),
     y |-> Max(500, Min(CANVAS_HEIGHT - 500, g.y))]

\* A faulty variant: only the distance from the planets is tested.
BlackHoleValidPlanetsOnly(planets, goal, start, blackHoles, x, y) ==
    \A i \in 1..Len(planets) :
        DistSquared(x, y, planets[i].x, planets[i].y)
            >= (planets[i].radius + 800) * (planets[i].radius + 800)

\* A faulty variant: the comparison with the planets is the wrong way round.
BlackHoleValidNearPlanet(planets, goal, start, blackHoles, x, y) ==
    /\ \E i \in 1..Len(planets) :
           DistSquared(x, y, planets[i].x, planets[i].y)
               < (planets[i].radius + 800) * (planets[i].radius + 800)
    /\ DistSquared(x, y, goal.x, goal.y) >= 1000 * 1000
    /\ DistSquared(x, y, start.x, start.y) >= 1200 * 1200
    /\ \A j \in 1..Len(blackHoles) :
           DistSquared(x, y, blackHoles[j].x, blackHoles[j].y) >= 1500 * 1500

\* A black-hole candidate keeps its distances from planets, goal, start and
\* the black holes placed so far.
BlackHoleValid(planets, goal, start, blackHoles, x, y) ==
    /\ \A i \in 1..Len(planets) :
           DistSquared(x, y, planets[i].x, planets[i].y)
               >= (planets[i].radius + 800) * (planets[i].radius + 800)
    /\ DistSquared(x, y, goal.x, goal.y) >= 1000 * 1000
    /\ DistSquared(x, y, start.x, start.y) >= 1200 * 1200
    /\ \A j \in 1..Len(blackHoles) :
           DistSquared(x, y, blackHoles[j].x, blackHoles[j].y) >= 1500 * 1500

RECURSIVE BlackHoleAttemptWithin(_, _, _, _, _, _, _)

\* One black-hole candidate at (x, y): accepted with a drawn radius, or on to
\* the next attempt.
BlackHoleCandidate(planets, goal, start, blackHoles, s2, attempts, limit, x, y) ==
    IF BlackHoleValid(planets, goal, start, blackHoles, x, y)
    THEN [blackHoles |-> Append(blackHoles,
                           [x |-> x, y |-> y, radius |-> 10 * (8 + RandFloor(random(s2), 4, 1))]),
          seed |-> random(s2), placed |-> TRUE]
    ELSE BlackHoleAttemptWithin(planets, goal, start, blackHoles, s2, attempts + 1, limit)

\* The candidate's position: 50 + random() * (CANVAS - 100) on each axis.
BlackHoleDraw(planets, goal, start, blackHoles, s1, s2, attempts, limit) ==
    BlackHoleCandidate(planets, goal, start, blackHoles, s2, attempts, limit,
                       500 + RandScale(s1, CANVAS_WIDTH - 1000),
                       500 + RandScale(s2, CANVAS_HEIGHT - 1000))

\* The attempts of the black-hole loop from number attempts up to limit.
BlackHoleAttemptWithin(planets, goal, start, blackHoles, seed, attempts, limit) ==
    IF attempts >= limit THEN [blackHoles |-> blackHoles, seed |-> seed, placed |-> FALSE]
    ELSE BlackHoleDraw(planets, goal, start, blackHoles, random(seed), random(random(seed)),
                       attempts, limit)

RECURSIVE BlackHoleAttempt(_, _, _, _, _, _)

\* After ten attempts: done when one placed the black hole, else the next ten.
BlackHoleAttemptAfter(planets, goal, start, blackHoles, attempts, r) ==
    IF r.placed THEN [blackHoles |-> r.blackHoles, seed |-> r.seed]
    ELSE BlackHoleAttempt(planets, goal, start, blackHoles, r.seed, attempts + 10)

\* while (!validPosition && attempts < 50) for one black hole, evaluated ten
\* attempts at a time.
BlackHoleAttempt(planets, goal, start, blackHoles, seed, attempts) ==
    IF attempts >= 50 THEN [blackHoles |-> blackHoles, seed |-> seed]
    ELSE BlackHoleAttemptAfter(planets, goal, start, blackHoles, attempts,
                               BlackHoleAttemptWithin(planets, goal, start, blackHoles, seed,
                                                      attempts, attempts + 10))

RECURSIVE BlackHoleMany(_, _, _, _, _)
BlackHoleMany(planets, goal, start, placement, count) ==
    IF count <= 0 THEN placement.blackHoles
    ELSE BlackHoleMany(planets, goal, start,
                       BlackHoleAttempt(planets, goal, start,
                                        placement.blackHoles, placement.seed, 0),
                       count - 1)

\* The start position: 15 px above the surface of the start planet.
StartPosition(startPlanet, startAngle) ==
    [x |-> PolarX(startPlanet.x, startAngle, startPlanet.radius + 150),
     y |-> PolarY(startPlanet.y, startAngle, startPlanet.radius + 150)]

\* The level object once start and goal are fixed: the black holes are placed last.
LevelFinalized(planets, config, startPosition, goalPosition, seed) ==
    [planets |-> planets,
     startPosition |-> startPosition,
     goalPosition |-> goalPosition,
     blackHoles |-> BlackHoleMany(planets, goalPosition, startPosition,
                                  [blackHoles |-> <<>>, seed |-> seed], config.blackHoleCount),
     seed |-> 0,
     archetype |-> "standard"]

\* The goal after the re-roll loop: forced displacement, then the clamp.
GoalPlaced(planets, config, startPosition, goalPlanet, rolled) ==
    LevelFinalized(planets, config, startPosition,
                   GoalClamp(GoalForced(goalPlanet, rolled)), rolled.seed)

\* The first goal candidate, at goalDistance = radius + 40 + random() * 30 from
\* the goal planet, and the re-roll loop from it.
GoalDrawn(planets, config, startPosition, goalPlanet, goalAngle, s3) ==
    LET goalDistance == goalPlanet.radius + 400 + RandScale(s3, 300)
    IN  GoalPlaced(planets, config, startPosition, goalPlanet,
                   GoalReroll(planets, goalPlanet, goalDistance,
                              PolarX(goalPlanet.x, goalAngle, goalDistance),
                              PolarY(goalPlanet.y, goalAngle, goalDistance), s3, 0))

\* Start on planets[0], goal near planets[min(goalHops, length - 1)], from the
\* draws s1 (start angle), s2 (goal angle), s3 (goal distance).
FinalizeDraws(planets, config, s1, s2, s3) ==
    GoalDrawn(planets, config,
              StartPosition(planets[1], RandFloor(s1, 360, 1)),
              planets[Min(config.goalHops, Len(planets) - 1) + 1],
              RandFloor(s2, 360, 1), s3)

\* Finalize level: start, goal, black holes, from the placement [planets, seed].
finalizeLevelGeneration(levelNumber, config, placement) ==
    FinalizeDraws(IF Len(placement.planets) = 0
                  THEN <<Planet(300, CANVAS_WIDTH \div 2, CANVAS_HEIGHT \div 2, 1000)>>
                  ELSE placement.planets,
                  config,
                  random(placement.seed),
                  random(random(placement.seed)),
                  random(random(random(placement.seed))))

\* Simple random distribution of planets
generateSimple(levelNumber, config, seed) ==
    LET s1 == random(seed)
        planetCount == config.planetCount[1]
                       + RandFloor(s1, config.planetCount[2] - config.planetCount[1] + 1, 1)
    IN  finalizeLevelGeneration(levelNumber, config,
            PlaceMany("simple", config, [planets |-> <<>>, seed |-> s1], planetCount))

\* Binary system: two large planets close together, then supporting planets
generateBinarySystem(levelNumber, config, seed) ==
    LET s1 == random(seed)
        s2 == random(s1)
        s3 == random(s2)
        s4 == random(s3)
        hi == config.sizeRange[2]
        binaryRadius1 == 7 * hi + RandScale(s1, 3 * hi)
        binaryRadius2 == 6 * hi + RandScale(s2, 3 * hi)
        binarySeparation == binaryRadius1 + binaryRadius2 + (config.minSpacing * 7) \div 10
        angle == RandFloor(s3, 360, 1)
        offX == Rnd(Cos(angle) * (binarySeparation \div 2), 1000)
        offY == Rnd(Sin(angle) * (binarySeparation \div 2), 1000)
        pair == << Planet(binaryRadius1, CANVAS_WIDTH \div 2 + offX, CANVAS_HEIGHT \div 2 + offY,
                          CubeStrength(binaryRadius1)),
                   Planet(binaryRadius2, CANVAS_WIDTH \div 2 - offX, CANVAS_HEIGHT \div 2 - offY,
                          CubeStrength(binaryRadius2)) >>
        remainingPlanets == config.planetCount[1] - 2
                            + RandFloor(s4, config.planetCount[2] - config.planetCount[1], 1)
    IN  finalizeLevelGeneration(levelNumber, config,
            PlaceMany("binary", config, [planets |-> pair, seed |-> s4], remainingPlanets))

\* Gauntlet: a line of alternating sized planets, no spacing test
RECURSIVE GauntletLine(_, _, _, _, _, _)
GauntletLine(config, horizontal, planetCount, i, planets, seed) ==
    IF i >= planetCount THEN [planets |-> planets, seed |-> seed]
    ELSE LET alternateSize == i % 2 = 0
             s1 == IF alternateSize THEN seed ELSE random(seed)
             s2 == random(s1)
             radius == IF alternateSize THEN 7 * config.sizeRange[2]
                       ELSE 10 * config.sizeRange[1] + RandScale(s1, 5 * config.sizeRange[1])
             x == IF horizontal THEN Rnd((i + 1) * (CANVAS_WIDTH - 1000), planetCount + 1) + 500
                  ELSE CANVAS_WIDTH \div 2 + RandScale(s2, 2000) - 1000
             y == IF horizontal THEN CANVAS_HEIGHT \div 2 + RandScale(s2, 2000) - 1000
                  ELSE Rnd((i + 1) * (CANVAS_HEIGHT - 1000), planetCount + 1) + 500
         IN  GauntletLine(config, horizontal, planetCount, i + 1,
                          Append(planets, Planet(radius, x, y, CubeStrength(radius))), s2)

generateGauntlet(levelNumber, config, seed) ==
    LET s1 == random(seed)
        planetCount == Max(5, config.planetCount[1])
    IN  finalizeLevelGeneration(levelNumber, config,
            GauntletLine(config, 2 * s1 < LcgModulus, planetCount, 0, <<>>, s1))

\* Void: sparse planets, every draw accepted (no spacing test)
RECURSIVE VoidPlanets(_, _, _, _)
VoidPlanets(config, count, planets, seed) ==
    IF count <= 0 THEN [planets |-> planets, seed |-> seed]
    ELSE LET s1 == random(seed)
             s2 == random(s1)
             s3 == random(s2)
             radius == 10 * (config.sizeRange[1]
                             + RandFloor(s1, config.sizeRange[2] - config.sizeRange[1], 1))
             x == radius + 400 + RandScale(s2, CANVAS_WIDTH - 2 * radius - 800)
             y == radius + 400 + RandScale(s3, CANVAS_HEIGHT - 2 * radius - 800)
         IN  VoidPlanets(config, count - 1,
                         Append(planets, Planet(radius, x, y, CubeStrength(radius))), s3)

generateVoid(levelNumber, config, seed) ==
    finalizeLevelGeneration(levelNumber, config,
        VoidPlanets(config, Max(3, config.planetCount[1] - 1), <<>>, seed))

\* Maze: dense cluster, spacing 0.7 * minSpacing
generateMaze(levelNumber, config, seed) ==
    finalizeLevelGeneration(levelNumber, config,
        PlaceMany("maze", config, [planets |-> <<>>, seed |-> seed], config.planetCount[2]))

\* Giant: one huge planet, then satellites
generateGiant(levelNumber, config, seed) ==
    LET s1 == random(seed)
        s2 == random(s1)
        giantRadius == 10 * config.sizeRange[2]
        giant == Planet(giantRadius,
                        CANVAS_WIDTH \div 2 + RandScale(s1, 1000) - 500,
                        CANVAS_HEIGHT \div 2 + RandScale(s2, 1000) - 500,
                        (CubeStrength(giantRadius) * 3) \div 2)
    IN  finalizeLevelGeneration(levelNumber, config,
            PlaceMany("giant", config, [planets |-> <<giant>>, seed |-> s2],
                      config.planetCount[1] - 1))

\* Precision: all tiny planets, spacing 1.2 * minSpacing
generatePrecision(levelNumber, config, seed) ==
    finalizeLevelGeneration(levelNumber, config,
        PlaceMany("precision", config, [planets |-> <<>>, seed |-> seed], config.planetCount[2]))

\* Slingshot: four planets on a fixed half-ellipse, no spacing test
RECURSIVE SlingshotPath(_, _, _, _)
SlingshotPath(config, i, planets, seed) ==
    IF i >= 4 THEN [planets |-> planets, seed |-> seed]
    ELSE LET s1 == random(seed)
             radius == 10 * (config.sizeRange[1]
                             + RandFloor(s1, (config.sizeRange[2] - config.sizeRange[1]) * 7, 10))
             curveAngle == i * 60
             curveRadius == (Min(CANVAS_WIDTH, CANVAS_HEIGHT) * 35) \div 100
             x == PolarX(CANVAS_WIDTH \div 2, curveAngle, curveRadius)
             y == PolarY(CANVAS_HEIGHT \div 2, curveAngle, curveRadius \div 2)
         IN  SlingshotPath(config, i + 1,
                           Append(planets, Planet(radius, x, y, CubeStrength(radius))), s1)

generateSlingshot(levelNumber, config, seed) ==
    finalizeLevelGeneration(levelNumber, config, SlingshotPath(config, 0, <<>>, seed))

\* Chaos: spacing 0.8 * minSpacing, randomised gravity strength
generateChaos(levelNumber, config, seed) ==
    finalizeLevelGeneration(levelNumber, config,
        PlaceMany("chaos", config, [planets |-> <<>>, seed |-> seed], config.planetCount[2]))

generateByArchetype(levelNumber, config, seed) ==
    IF config.archetype = "binary" THEN generateBinarySystem(levelNumber, config, seed)
    ELSE IF config.archetype = "gauntlet" THEN generateGauntlet(levelNumber, config, seed)
    ELSE IF config.archetype = "void" THEN generateVoid(levelNumber, config, seed)
    ELSE IF config.archetype = "maze" THEN generateMaze(levelNumber, config, seed)
    ELSE IF config.archetype = "giant" THEN generateGiant(levelNumber, config, seed)
    ELSE IF config.archetype = "precision" THEN generatePrecision(levelNumber, config, seed)
    ELSE IF config.archetype = "slingshot" THEN generateSlingshot(levelNumber, config, seed)
    ELSE IF config.archetype = "chaos" THEN generateChaos(levelNumber, config, seed)
    ELSE generateSimple(levelNumber, config, seed)

\* A faulty variant: the generator state survives from call to call.
InitialSeedCarried(levelNumber) == levelNumber + Len(generated.levels)

\* let randSeed = levelNumber: the closure's LCG state at the start of a call.
InitialSeed(levelNumber) == levelNumber

generateLevel(levelNumber) ==
    LET config == TierConfig(levelNumber, InitialSeed(levelNumber))
        level == generateByArchetype(levelNumber, config, config.seed)
    IN  [level EXCEPT !.seed = levelNumber, !.archetype = config.archetype]

(***************************************************************************)
(* Gravity sources                                                         *)
(***************************************************************************)
\* strength * GRAVITY_CONSTANT * gravityMultiplier / (distSquared + 100) in
\* deci-pixels/s^2: GRAVITY_CONSTANT * gravityMultiplier = 2778000 * 4.2, the
\* strength is in thousandths, and softened is distSquared + 100 in px^2.
\* The quotient is formed in two steps to stay within the integer width.
ForceMagnitude(strength, softened) ==
    ((strength * 11668) \div softened) * 10
        + (((strength * 11668) % softened) * 10) \div softened

\* The force's components, forceMagnitude * (dx / distance) and
\* forceMagnitude * (dy / distance).
ForceToward(forceMagnitude, dx, dy, distance) ==
    [x |-> Scaled(forceMagnitude, Rnd(dx * 1000, distance)),
     y |-> Scaled(forceMagnitude, Rnd(dy * 1000, distance))]

\* A faulty variant: the guard reaches to the radius only.
ForceAtGuardRadius(source, dx, dy, distSquared, distance) ==
    IF distance < source.radius THEN [x |-> 0, y |-> 0]
    ELSE ForceToward(ForceMagnitude(source.gravityStrength, (distSquared + 10000) \div 100),
                     dx, dy, distance)

\* calculateGravity of Planet, BlackHole and the level's goal object: the same
\* force law, zero inside radius + 5.
ForceAt(source, dx, dy, distSquared, distance) ==
    IF distance < source.radius + 50 THEN [x |-> 0, y |-> 0]
    ELSE ForceToward(ForceMagnitude(source.gravityStrength, (distSquared + 10000) \div 100),
                     dx, dy, distance)

ForceAlong(source, dx, dy, distSquared) ==
    ForceAt(source, dx, dy, distSquared, Sqrt(distSquared))

calculateGravity(source, px, py) ==
    ForceAlong(source, source.x - px, source.y - py,
               DistSquared(source.x, source.y, px, py))

\* The level's goal as a gravity source (gravityStrength 0.56).
GoalSource(level) ==
    [x |-> level.goalPosition.x, y |-> level.goalPosition.y,
     radius |-> 200, gravityStrength |-> 560]

\* A black hole as a gravity source (gravityStrength 15.0).
BlackHoleSource(blackHole) ==
    [x |-> blackHole.x, y |-> blackHole.y,
     radius |-> blackHole.radius, gravityStrength |-> 15000]

AddForce(g, rest) == [x |-> g.x + rest.x, y |-> g.y + rest.y]

RECURSIVE SumForces(_, _, _, _)
SumForces(sources, i, px, py) ==
    IF i > Len(sources) THEN [x |-> 0, y |-> 0]
    ELSE AddForce(calculateGravity(sources[i], px, py), SumForces(sources, i + 1, px, py))

\* All sources acting on a body in flight: planets, goal, black holes.
TotalForce(level, px, py) ==
    SumForces(level.planets
                \o <<GoalSource(level)>>
                \o [j \in 1..Len(level.blackHoles) |-> BlackHoleSource(level.blackHoles[j])],
              1, px, py)

(***************************************************************************)
(* Player                                                                  *)
(***************************************************************************)
\* 6 rotations per second
baseAngularSpeed == 2160000

\* baseAngularSpeed^2 / (32 pi) = 4.5 pi rad/s^2 = 810 deg/s^2: the change of
\* angular speed per millisecond
angularAcceleration == 810

\* this.angularDeceleration = this.angularAcceleration * 0.8
angularDeceleration == 648

\* this.escapeThreshold = 1 / Math.sqrt(2), in millionths
escapeThreshold == 707107

NullPlanet == Planet(0, 0, 0, 0)

\* new Player(x, y, planet)
Player(x, y, planet) ==
    [x |-> x, y |-> y, prevX |-> x, prevY |-> y, screenWrapped |-> FALSE,
     vx |-> 0, vy |-> 0,
     onPlanet |-> planet # NullPlanet,
     currentPlanet |-> planet,
     hasJumped |-> FALSE,
     angle |-> IF planet # NullPlanet THEN 1000 * Atan2(y - planet.y, x - planet.x) ELSE 0,
     radius |-> 80,
     angularSpeed |-> 0]

\* A faulty variant: the fresh Player is put on the first planet of the level
\* that init() generated.
SpawnOnFirstLevel(level) ==
    Player(level.startPosition.x, level.startPosition.y, generateLevel(1).planets[1])

\* The spawn of every (re)start: a fresh Player at the level's start position
\* on planets[0].
SpawnPlayer(level) ==
    Player(level.startPosition.x, level.startPosition.y, level.planets[1])

\* Position on the circle of radius dist around the planet at the body's angle.
SurfaceX(planet, angle, dist) == PolarX(planet.x, Rnd(angle, 1000), dist)

SurfaceY(planet, angle, dist) == PolarY(planet.y, Rnd(angle, 1000), dist)

\* A faulty variant: with no key held the body runs to the right.
TargetSpeedRunsUnheld(keys, mobile) ==
    LET keyTarget == IF keys.left /\ keys.right THEN 0
                     ELSE IF keys.left THEN -baseAngularSpeed
                     ELSE baseAngularSpeed
    IN  IF mobile.targetSpeed > 0
        THEN (IF mobile.left THEN -1 ELSE 1) * (baseAngularSpeed \div 100) * mobile.targetSpeed
        ELSE keyTarget

\* The target angular speed from the combined keys and the mobile joystick.
\* mobile.targetSpeed is in percent of full speed.
TargetSpeed(keys, mobile) ==
    LET keyTarget == IF keys.left /\ keys.right THEN 0
                     ELSE IF keys.left THEN -baseAngularSpeed
                     ELSE IF keys.right THEN baseAngularSpeed
                     ELSE 0
    IN  IF mobile.targetSpeed > 0
        THEN (IF mobile.left THEN -1 ELSE 1) * (baseAngularSpeed \div 100) * mobile.targetSpeed
        ELSE keyTarget

\* A faulty variant: closer to the target than one step, the speed is kept.
AngularStepStopsShort(self, targetSpeed, maxAcceleration) ==
    IF Abs(targetSpeed - self.angularSpeed) < maxAcceleration THEN self.angularSpeed
    ELSE self.angularSpeed + Sign(targetSpeed - self.angularSpeed) * maxAcceleration

\* Smooth acceleration towards the target speed, snapping to it when close.
AngularStep(self, targetSpeed, maxAcceleration) ==
    IF Abs(targetSpeed - self.angularSpeed) < maxAcceleration THEN targetSpeed
    ELSE self.angularSpeed + Sign(targetSpeed - self.angularSpeed) * maxAcceleration

\* The body turned at the new angular speed for dt milliseconds.
Turned(self, angularSpeed, dt) ==
    [self EXCEPT !.angularSpeed = angularSpeed,
                   !.angle = self.angle + Rnd((angularSpeed \div 10) * dt, 100)]

\* A faulty variant: the speed grows in the held direction with no snap to the
\* target and no clamp.
updateAngularMovementUnclamped(self, keys, mobile, dt) ==
    Turned(self,
           self.angularSpeed + Sign(TargetSpeed(keys, mobile)) * angularAcceleration * dt,
           dt)

\* Player.updateAngularMovement
updateAngularMovement(self, keys, mobile, dt) ==
    Turned(self,
           Max(-baseAngularSpeed,
               Min(baseAngularSpeed,
                   AngularStep(self, TargetSpeed(keys, mobile), angularAcceleration * dt))),
           dt)

\* The landing test of one planet: touching now, or the swept segment
\* prev -> current intersecting the landing circle.
ShouldLand(self, planet) ==
    LET landingDistance == planet.radius + self.radius
    IN  \/ DistSquared(self.x, self.y, planet.x, planet.y) <= landingDistance * landingDistance
        \/ lineSegmentIntersectsCircle(self.prevX, self.prevY, self.x, self.y,
                                       planet.x, planet.y, landingDistance)

\* A faulty variant: the last planet that passes the landing test wins.
LandingIndexLast(self, planets) ==
    IF \E i \in 1..Len(planets) : ShouldLand(self, planets[i])
    THEN CHOOSE i \in 1..Len(planets) :
             /\ ShouldLand(self, planets[i])
             /\ \A j \in (i + 1)..Len(planets) : ~ShouldLand(self, planets[j])
    ELSE 0

\* Index of the first planet (in level order) that passes the landing test, 0 if none.
LandingIndex(self, planets) ==
    IF \E i \in 1..Len(planets) : ShouldLand(self, planets[i])
    THEN CHOOSE i \in 1..Len(planets) :
             /\ ShouldLand(self, planets[i])
             /\ \A j \in 1..(i - 1) : ~ShouldLand(self, planets[j])
    ELSE 0

\* A faulty variant: the landing keeps the velocity of the flight.
LandedKeepsVelocity(self, planet, angle) ==
    [self EXCEPT !.onPlanet = TRUE,
                   !.currentPlanet = planet,
                   !.hasJumped = FALSE,
                   !.angle = angle,
                   !.x = SurfaceX(planet, angle, planet.radius + self.radius),
                   !.y = SurfaceY(planet, angle, planet.radius + self.radius),
                   !.angularSpeed = 0]

\* A faulty variant: the landing leaves the launched flag set.
LandedKeepsLaunchedFlag(self, planet, angle) ==
    [self EXCEPT !.onPlanet = TRUE,
                   !.currentPlanet = planet,
                   !.angle = angle,
                   !.x = SurfaceX(planet, angle, planet.radius + self.radius),
                   !.y = SurfaceY(planet, angle, planet.radius + self.radius),
                   !.vx = 0,
                   !.vy = 0,
                   !.angularSpeed = 0]

\* The body put on the planet's surface at angle, at rest.
Landed(self, planet, angle) ==
    [self EXCEPT !.onPlanet = TRUE,
                   !.currentPlanet = planet,
                   !.hasJumped = FALSE,
                   !.angle = angle,
                   !.x = SurfaceX(planet, angle, planet.radius + self.radius),
                   !.y = SurfaceY(planet, angle, planet.radius + self.radius),
                   !.vx = 0,
                   !.vy = 0,
                   !.angularSpeed = 0]

\* The landing loop's outcome for the index i of LandingIndex.
LandAt(self, planets, i) ==
    IF i = 0 THEN self
    ELSE Landed(self, planets[i],
                1000 * Atan2(self.y - planets[i].y, self.x - planets[i].x))

\* === LANDING PHYSICS ===
LandingPhysics(self, planets) ==
    LandAt(self, planets, IF self.onPlanet THEN 0 ELSE LandingIndex(self, planets))

\* The body kept at surfaceDistance from the planet's centre, at its angle.
SurfacePlaced(moved, planet, surfaceDistance) ==
    [moved EXCEPT !.x = SurfaceX(planet, moved.angle, surfaceDistance),
                  !.y = SurfaceY(planet, moved.angle, surfaceDistance)]

\* === ON-PLANET PHYSICS ===
OnPlanetPhysics(self, keys, mobile, dt) ==
    SurfacePlaced(updateAngularMovement(self, keys, mobile, dt), self.currentPlanet,
                  self.currentPlanet.radius + self.radius + 20)

\* The Euler step: the velocity changed by force * dt, then the position by
\* the new velocity * dt.
Moved(self, vx, vy, dt) ==
    [vx |-> vx, vy |-> vy,
     x |-> self.x + Scaled(vx, dt),
     y |-> self.y + Scaled(vy, dt)]

Accelerated(self, force, dt) ==
    Moved(self, self.vx + Scaled(force.x, dt), self.vy + Scaled(force.y, dt), dt)

\* The position after the Euler step, before the screen wrap.
FlightStep(self, level, dt) == Accelerated(self, TotalForce(level, self.x, self.y), dt)

\* A faulty variant: the wrap leaves the previous position where it was.
WrappedKeepsPrevious(self, step, wrapped) ==
    [self EXCEPT !.vx = step.vx,
                   !.vy = step.vy,
                   !.x = wrapped.x,
                   !.y = wrapped.y,
                   !.screenWrapped = wrapped.x # step.x \/ wrapped.y # step.y]

\* The screen wrap after the step; a wrap resets the previous position.
Wrapped(self, step, wrapped) ==
    LET didWrap == wrapped.x # step.x \/ wrapped.y # step.y
    IN  [self EXCEPT !.vx = step.vx,
                       !.vy = step.vy,
                       !.x = wrapped.x,
                       !.y = wrapped.y,
                       !.screenWrapped = didWrap,
                       !.prevX = IF didWrap THEN wrapped.x ELSE self.prevX,
                       !.prevY = IF didWrap THEN wrapped.y ELSE self.prevY]

WrapStep(self, step) == Wrapped(self, step, wrapScreenPosition(step.x, step.y))

\* === FREE-FALL PHYSICS ===
FreeFallPhysics(self, level, dt) == WrapStep(self, FlightStep(self, level, dt))

\* The branch of updatePhysics after the landing loop.
PhysicsAfterLanding(landed, level, keys, mobile, deltaTime) ==
    IF landed.onPlanet /\ landed.currentPlanet # NullPlanet
    THEN OnPlanetPhysics(landed, keys, mobile, deltaTime)
    ELSE FreeFallPhysics(landed, level, deltaTime)

\* Player.updatePhysics: dt = deltaTime * 0.001 * gameSpeed, with gameSpeed 1.0.
updatePhysics(self, level, keys, mobile, deltaTime) ==
    PhysicsAfterLanding(LandingPhysics(self, level.planets), level, keys, mobile, deltaTime)

\* Tangential plus radial component of the launch velocity.
LaunchVelocity(self, linearVelocity, radialAngle, tangentialAngle) ==
    [vx |-> Rnd(Cos(tangentialAngle) * linearVelocity + Cos(radialAngle) * 500, 1000),
     vy |-> Rnd(Sin(tangentialAngle) * linearVelocity + Sin(radialAngle) * 500, 1000)]

\* A faulty variant: the running speed is sent along the radial direction.
LaunchAlongRadial(self, planet, radialAngle) ==
    LaunchVelocity(self,
                   Rnd(Scaled(Scaled(Abs(self.angularSpeed), planet.radius + self.radius + 20),
                              17453), 1000),
                   radialAngle,
                   radialAngle)

\* The launch direction: radialAngle = atan2 from the planet's centre, the
\* tangent 90 degrees further in the direction of rotation.
LaunchAlong(self, planet, radialAngle) ==
    LaunchVelocity(self,
                   Rnd(Scaled(Scaled(Abs(self.angularSpeed), planet.radius + self.radius + 20),
                              17453), 1000),
                   radialAngle,
                   radialAngle + 90 * (IF self.angularSpeed >= 0 THEN 1 ELSE -1))

\* The launch velocity: tangential |w| * orbitalRadius (w in rad/s = deg/s *
\* pi / 180) plus the fixed radial push minRadialVelocity = 50 px/s.
Launch(self) ==
    LaunchAlong(self, self.currentPlanet,
                Atan2(self.y - self.currentPlanet.y, self.x - self.currentPlanet.x))

\* this.vx, this.vy = the launch velocity
WithVelocity(self, velocity) == [self EXCEPT !.vx = velocity.vx, !.vy = velocity.vy]

\* A faulty variant of jump that forgets the state change (onPlanet, hasJumped).
jumpKeepsSurface(self) ==
    IF self.onPlanet /\ self.currentPlanet # NullPlanet
    THEN WithVelocity(self, Launch(self))
    ELSE self

\* Player.jump
jump(self) ==
    IF self.onPlanet /\ self.currentPlanet # NullPlanet
    THEN [WithVelocity(self, Launch(self)) EXCEPT !.onPlanet = FALSE, !.hasJumped = TRUE]
    ELSE self

(***************************************************************************)
(* Goal and lethal-collision evaluation                                    *)
(***************************************************************************)
\* Level.checkGoal: inside the goal circle now, or the movement path crosses it
\* (goal radius only, no body-radius padding).
checkGoal(level, self) ==
    \/ DistSquared(self.x, self.y, level.goalPosition.x, level.goalPosition.y) <= 200 * 200
    \/ lineSegmentIntersectsCircle(self.prevX, self.prevY, self.x, self.y,
                                   level.goalPosition.x, level.goalPosition.y, 200)

\* A faulty variant without the swept test: only the current position is tested.
checkBlackHolePointOnly(self, blackHoles) ==
    \E i \in 1..Len(blackHoles) :
        DistSquared(self.x, self.y, blackHoles[i].x, blackHoles[i].y)
            < (blackHoles[i].radius + self.radius) * (blackHoles[i].radius + self.radius)

checkBlackHoleCollision(self, blackHoles) ==
    \E i \in 1..Len(blackHoles) :
        LET combinedRadius == blackHoles[i].radius + self.radius
        IN  \/ DistSquared(self.x, self.y, blackHoles[i].x, blackHoles[i].y)
                 < combinedRadius * combinedRadius
            \/ lineSegmentIntersectsCircle(self.prevX, self.prevY, self.x, self.y,
                                           blackHoles[i].x, blackHoles[i].y, combinedRadius)

(***************************************************************************)
(* Closest-approach characterisation of segment/circle contact             *)
(***************************************************************************)
\* Some point p0 + t (p1 - p0), 0 <= t <= 1, lies within radius of the centre:
\* the point of the segment closest to the centre is p0 when the projection
\* parameter is <= 0, p1 when it is >= 1, and the foot of the perpendicular
\* otherwise, whose squared distance is |f|^2 - (f.d)^2 / |d|^2.
SegmentWithin(x1, y1, x2, y2, cx, cy, radius) ==
    LET dx == x2 - x1
        dy == y2 - y1
        lengthSquared == dx * dx + dy * dy
        dot == (x1 - cx) * dx + (y1 - cy) * dy
        startExcess == DistSquared(x1, y1, cx, cy) - radius * radius
        endExcess == DistSquared(x2, y2, cx, cy) - radius * radius
    IN  IF dot >= 0 THEN startExcess <= 0
        ELSE IF -dot >= lengthSquared THEN endExcess <= 0
        ELSE startExcess <= 0 \/ ~SquareLessThanProduct(-dot, lengthSquared, startExcess)

(***************************************************************************)
(* The game session                                                        *)
(***************************************************************************)
\* gameState.lives = Infinity (speedrun and practice); never decremented there.
Infinity == 1000000

\* getDailyChallengeSeed() for the date the session runs on.
getDailyChallengeSeed == 2026 * 10000 + 11 * 100 + 1

\* gameState.mobileInput: positions in whole pixels, targetSpeed in percent.
InitialMobileInput ==
    [active |-> FALSE, centerX |-> 0, currentX |-> 0,
     left |-> FALSE, right |-> FALSE, targetSpeed |-> 0]

\* initializeGameState(), then init(): already loaded, not yet started.
InitialGameState ==
    [gameStarted |-> FALSE, paused |-> FALSE, mode |-> "endless",
     speedrunTarget |-> 10, currentLevelNumber |-> 1,
     levelsCompleted |-> 0, deaths |-> 0, lives |-> 3,
     keys |-> [left |-> FALSE, right |-> FALSE],
     mobileInput |-> InitialMobileInput]

\* History of the last executed frame and of the launches of the body.
InitialObs ==
    [frames |-> 0,              \* frames executed since the session started
     flew |-> FALSE,            \* the body was in flight after the frame's physics
     crossed |-> FALSE,         \* its flight segment met a planet's landing circle
     tunnelled |-> FALSE,       \* ... and the next landing test did not land it
     blackHoleSegment |-> FALSE,\* its travel segment met a black hole's circle
     endsOutside |-> FALSE,     \* ... with both ends outside that circle
     lethal |-> FALSE,          \* checkBlackHoleCollision was true for the frame's body
     goalTest |-> FALSE,        \* checkGoal was true for the frame's body
     died |-> FALSE,            \* handlePlayerDeath ran
     completed |-> FALSE,       \* handleLevelComplete ran
     progressKept |-> TRUE,     \* levelsCompleted and currentLevel unchanged
     jumpsSinceLanding |-> 0,   \* launches that took effect since the last landing
     jumpsSinceSurface |-> 0,   \* ... since the last landing or spawn
     flightCommand |-> FALSE,   \* a launch command arrived during this flight
     flightCommandEffect |-> FALSE, \* ... and changed the body
     wrapped |-> FALSE,         \* the frame's flight step wrapped the body around the screen
     wrapCollapsed |-> FALSE,   \* ... and left previous position = position
     pointLethal |-> FALSE,     \* the frame's body lies within a black hole's lethal circle
     pointGoal |-> FALSE,       \* the frame's body lies within the goal circle
     spawn |-> "start"]         \* what put the fresh Player there: "start", "death",
                                \* "complete", "restart"; "none" once the body has changed

\* init(): gameState.currentLevel = Level.generateLevel(1), before any menu choice.
InitialLevel == generateLevel(1)

NoSegment ==
    [x1 |-> 0, y1 |-> 0, x2 |-> 0, y2 |-> 0, cx |-> 0, cy |-> 0, radius |-> 0,
     applied |-> FALSE, result |-> FALSE]

NoGeneration == [levelNumber |-> 0, levels |-> <<>>, between |-> 0]

(***************************************************************************)
(* Specification SpecGeom: lineSegmentIntersectsCircle on a grid of inputs *)
(***************************************************************************)
MaxCoordinate == 2

MaxCentre == 1

MaxRadius == 2

InitGeom ==
    /\ gameState = InitialGameState
    /\ currentLevel = InitialLevel
    /\ player = SpawnPlayer(currentLevel)
    /\ obs = InitialObs
    /\ generated = NoGeneration
    /\ \E x1, y1, x2, y2 \in -MaxCoordinate..MaxCoordinate :
       \E cx, cy \in 0..MaxCentre :
       \E radius \in 0..MaxRadius :
           segment = [x1 |-> x1, y1 |-> y1, x2 |-> x2, y2 |-> y2,
                      cx |-> cx, cy |-> cy, radius |-> radius,
                      applied |-> FALSE, result |-> FALSE]

\* One call of the utility on the drawn input.
ApplySweptTest ==
    /\ ~segment.applied
    /\ segment' = [segment EXCEPT
                      !.applied = TRUE,
                      !.result = lineSegmentIntersectsCircle(
                                     segment.x1, segment.y1, segment.x2, segment.y2,
                                     segment.cx, segment.cy, segment.radius)]
    /\ UNCHANGED <<gameState, currentLevel, player, obs, generated>>

NextGeom == ApplySweptTest

SpecGeom == InitGeom /\ [][NextGeom]_vars

EndPointInside ==
    DistSquared(segment.x2, segment.y2, segment.cx, segment.cy)
        <= segment.radius * segment.radius

StartPointInside ==
    DistSquared(segment.x1, segment.y1, segment.cx, segment.cy)
        <= segment.radius * segment.radius

\* C8: whenever the end point (x2, y2) of the segment lies within the circle
\* (distance squared <= radius squared), lineSegmentIntersectsCircle returns
\* true: the swept test accepts everything the point test at the end accepts.
C8_SweptSupersetOfPoint ==
    (segment.applied /\ EndPointInside) => segment.result

\* The case of C8: a moving segment that starts outside the circle and ends
\* inside it, accepted by the swept test.
C8_Witness ==
    /\ segment.applied
    /\ EndPointInside
    /\ ~StartPointInside
    /\ segment.result

\* C9: lineSegmentIntersectsCircle returns true if and only if some point of
\* the segment (parameter 0 <= t <= 1) lies at distance <= radius from the
\* centre, for crossing, tangent, interior and zero-length segments alike.
C9_SweptTestExact ==
    segment.applied =>
        (segment.result <=> SegmentWithin(segment.x1, segment.y1, segment.x2, segment.y2,
                                          segment.cx, segment.cy, segment.radius))

\* The case of C9: a segment that passes through the circle with both end
\* points outside it, reported as intersecting.
C9_Witness ==
    /\ segment.applied
    /\ segment.result
    /\ ~StartPointInside
    /\ ~EndPointInside
    /\ segment.radius > 0

(***************************************************************************)
(* Specification SpecGen: repeated calls of Level.generateLevel            *)
(***************************************************************************)
MaxLevelNumber == 200

MaxGenerations == 2

MaxBetween == 1

InitGen ==
    /\ \E levelNumber \in 1..MaxLevelNumber :
           generated = [levelNumber |-> levelNumber, levels |-> <<>>, between |-> 0]
    /\ gameState = InitialGameState
    /\ currentLevel = InitialLevel
    /\ player = SpawnPlayer(currentLevel)
    /\ obs = InitialObs
    /\ segment = NoSegment

\* Level.generateLevel(levelNumber), the returned level kept for comparison.
GenerateLevel ==
    /\ Len(generated.levels) < MaxGenerations
    /\ generated' = [generated EXCEPT
                        !.levels = Append(@, generateLevel(generated.levelNumber))]
    /\ UNCHANGED <<gameState, currentLevel, player, obs, segment>>

\* Another level is generated (and played) in between: the session moves on
\* to the next level number, as handleLevelComplete does.
GenerateOther ==
    /\ generated.between < MaxBetween
    /\ Len(generated.levels) >= 1
    /\ currentLevel' = generateLevel(generated.levelNumber + 1)
    /\ player' = SpawnPlayer(currentLevel')
    /\ generated' = [generated EXCEPT !.between = @ + 1]
    /\ UNCHANGED <<gameState, obs, segment>>

NextGen == GenerateLevel \/ GenerateOther

SpecGen == InitGen /\ [][NextGen]_vars

ConfiguredSpacing == TierConfig(generated.levelNumber, InitialSeed(generated.levelNumber)).minSpacing

PlanetSpacingHolds(level, minSpacing) ==
    \A i, j \in 1..Len(level.planets) :
        i # j =>
            LET minDist == level.planets[i].radius + level.planets[j].radius + minSpacing
            IN  DistSquared(level.planets[i].x, level.planets[i].y,
                            level.planets[j].x, level.planets[j].y) >= minDist * minDist

\* C6: in every generated level, of every archetype, every two distinct
\* planets have centre distance >= radius_a + radius_b + minSpacing, with
\* minSpacing the value of the level's tier configuration.
C6_PlanetSpacing ==
    \A i \in 1..Len(generated.levels) :
        PlanetSpacingHolds(generated.levels[i], ConfiguredSpacing)

GoalBufferHolds(level) ==
    \A i \in 1..Len(level.planets) :
        LET minDist == level.planets[i].radius + 200 + 400
        IN  DistSquared(level.goalPosition.x, level.goalPosition.y,
                        level.planets[i].x, level.planets[i].y) >= minDist * minDist

\* C7: in every level returned by generateLevel the final goal position is at
\* distance >= planet.radius + goalRadius (20) + buffer (40) from the centre of
\* every planet of the level.
C7_GoalBuffer ==
    \A i \in 1..Len(generated.levels) : GoalBufferHolds(generated.levels[i])

(***************************************************************************)
(* Specification Spec: the game loop and its input handlers                *)
(***************************************************************************)
MaxFrames == 3

MaxJumpsCounted == 2

DeltaTimes == {17, 100}

KeyCodes == {"ArrowLeft", "ArrowRight", "Space", "KeyR", "Escape"}

\* Horizontal touch positions in whole pixels: where a touch starts, and where
\* it is dragged to (beyond the joystick's dead zone of 10 px).
TouchPositions == {400}

TouchMoves == {460}

PracticeLevels == {1017, 1997}

SpeedrunTargets == {10}

\* The level numbers a session can reach within MaxFrames frames, and their
\* levels: generateLevel is a function of the level number alone, so each
\* level is generated once and looked up afterwards.
SessionLevelNumbers ==
    UNION {n..(n + MaxFrames) :
              n \in {1, getDailyChallengeSeed, getDailyChallengeSeed + 1} \cup PracticeLevels}

SessionLevels == [n \in SessionLevelNumbers |-> generateLevel(n)] @@ <<>>

\* Level.generateLevel(levelNumber) as called by the session's handlers.
LoadLevel(levelNumber) == SessionLevels[levelNumber]

\* The mode buttons of the menu: mode and target passed to selectMode.
ModeChoices ==
    {<<"endless", 0>>, <<"daily", 0>>}
        \cup {<<"speedrun", t>> : t \in SpeedrunTargets}
        \cup {<<"practice", l>> : l \in PracticeLevels}

updateMobileInput(mobile) ==
    LET deltaX == mobile.currentX - mobile.centerX
        distance == Abs(deltaX)
        clampedDistance == Min(distance, 50)
    IN  IF ~mobile.active \/ distance < 10
        THEN [mobile EXCEPT !.left = FALSE, !.right = FALSE, !.targetSpeed = 0]
        ELSE [mobile EXCEPT !.left = deltaX <= 0,
                            !.right = deltaX > 0,
                            !.targetSpeed = (clampedDistance * 100) \div 50]

\* A faulty variant: the death is counted and the body that died plays on.
handlePlayerDeathKeepsBody(gs, level, body) ==
    [gameState |-> [gs EXCEPT !.deaths = @ + 1], currentLevel |-> level, player |-> body]

\* A faulty variant: the game is over only when lives fall below zero.
handlePlayerDeathExtraLife(gs, level, body) ==
    LET counted == [gs EXCEPT !.deaths = @ + 1]
        charged == IF gs.mode \in {"endless", "daily"}
                   THEN [counted EXCEPT !.lives = @ - 1]
                   ELSE counted
    IN  IF gs.mode \in {"endless", "daily"} /\ charged.lives < 0
        THEN [gameState |-> [charged EXCEPT !.gameStarted = FALSE],
              currentLevel |-> level, player |-> body]
        ELSE [gameState |-> charged, currentLevel |-> level, player |-> SpawnPlayer(level)]

\* handlePlayerDeath: the game state, level (unchanged) and body after a death.
handlePlayerDeath(gs, level, body) ==
    LET counted == [gs EXCEPT !.deaths = @ + 1]
        charged == IF gs.mode \in {"endless", "daily"}
                   THEN [counted EXCEPT !.lives = @ - 1]
                   ELSE counted
    IN  IF gs.mode \in {"endless", "daily"} /\ charged.lives <= 0
        THEN [gameState |-> [charged EXCEPT !.gameStarted = FALSE],
              currentLevel |-> level, player |-> body]
        ELSE [gameState |-> charged, currentLevel |-> level, player |-> SpawnPlayer(level)]

\* The next level entered with a fresh body at its start position.
LevelEntered(advanced, nextLevel) ==
    [gameState |-> advanced, currentLevel |-> nextLevel, player |-> SpawnPlayer(nextLevel)]

\* handleLevelComplete (with completeSpeedrun): game state, level and body
\* after the goal was reached.
handleLevelCompleteOn(dailySeed, gs, level, body) ==
    IF gs.mode = "speedrun" /\ gs.levelsCompleted + 1 >= gs.speedrunTarget
    THEN [gameState |-> [gs EXCEPT !.levelsCompleted = @ + 1, !.gameStarted = FALSE],
          currentLevel |-> level, player |-> body]
    ELSE LevelEntered([gs EXCEPT !.levelsCompleted = @ + 1, !.currentLevelNumber = @ + 1],
                      LoadLevel(IF gs.mode = "daily"
                                THEN dailySeed + gs.levelsCompleted + 1
                                ELSE gs.currentLevelNumber + 1))

\* handleLevelComplete on the day the session started.
handleLevelComplete(gs, level, body) ==
    handleLevelCompleteOn(getDailyChallengeSeed, gs, level, body)

\* A faulty variant: the goal is evaluated before the black holes.
FrameOutcomeGoalFirst(lethal, goal) ==
    IF goal THEN "complete" ELSE IF lethal THEN "death" ELSE "none"

\* The evaluation order of update(): black-hole collision first, with an early
\* return; the goal only afterwards.
FrameOutcome(lethal, goal) ==
    IF lethal THEN "death" ELSE IF goal THEN "complete" ELSE "none"

\* The body's segment meets the landing circle of some planet.
MeetsLandingCircle(planets, x1, y1, x2, y2, bodyRadius) ==
    \E i \in 1..Len(planets) :
        SegmentWithin(x1, y1, x2, y2, planets[i].x, planets[i].y,
                      planets[i].radius + bodyRadius)

\* The body's travel segment meets the lethal circle of some black hole.
MeetsBlackHole(blackHoles, body) ==
    \E i \in 1..Len(blackHoles) :
        SegmentWithin(body.prevX, body.prevY, body.x, body.y,
                      blackHoles[i].x, blackHoles[i].y, blackHoles[i].radius + body.radius)

\* ... of some black hole none of whose ends lies inside that circle.
PassesBlackHole(blackHoles, body) ==
    \E i \in 1..Len(blackHoles) :
        LET combinedRadius == blackHoles[i].radius + body.radius
        IN  /\ SegmentWithin(body.prevX, body.prevY, body.x, body.y,
                             blackHoles[i].x, blackHoles[i].y, combinedRadius)
            /\ DistSquared(body.prevX, body.prevY, blackHoles[i].x, blackHoles[i].y)
                 > combinedRadius * combinedRadius
            /\ DistSquared(body.x, body.y, blackHoles[i].x, blackHoles[i].y)
                 > combinedRadius * combinedRadius

\* The body's position lies within the lethal circle of some black hole.
InsideBlackHole(blackHoles, body) ==
    \E i \in 1..Len(blackHoles) :
        DistSquared(body.x, body.y, blackHoles[i].x, blackHoles[i].y)
            <= (blackHoles[i].radius + body.radius) * (blackHoles[i].radius + body.radius)

\* The body's position lies within the goal circle.
InsideGoal(level, body) ==
    DistSquared(body.x, body.y, level.goalPosition.x, level.goalPosition.y) <= 200 * 200

Init ==
    /\ gameState = InitialGameState
    /\ currentLevel = InitialLevel
    /\ player = SpawnPlayer(currentLevel)
    /\ obs = InitialObs
    /\ segment = NoSegment
    /\ generated = NoGeneration

\* The rest of update() after the physics: handlePlayerDeath, or
\* handleLevelComplete, or neither.
FrameResult(gs, level, body, outcome) ==
    IF outcome = "death" THEN handlePlayerDeath(gs, level, body)
    ELSE IF outcome = "complete" THEN handleLevelComplete(gs, level, body)
    ELSE [gameState |-> gs, currentLevel |-> level, player |-> body]

\* The history after a frame that took the body from before to after.
FrameHistory(before, after, lethal, goal, outcome, result) ==
    LET flew == ~after.onPlanet
        touchedDown == ~before.onPlanet /\ after.onPlanet
        respawned == result.player # after
    IN  [frames |-> obs.frames + 1,
         flew |-> flew,
         crossed |-> /\ flew
                     /\ ~after.screenWrapped
                     /\ outcome = "none"
                     /\ MeetsLandingCircle(currentLevel.planets, before.x, before.y,
                                           after.x, after.y, after.radius),
         tunnelled |-> obs.crossed /\ ~before.onPlanet /\ ~touchedDown,
         blackHoleSegment |-> flew /\ MeetsBlackHole(currentLevel.blackHoles, after),
         endsOutside |-> flew /\ PassesBlackHole(currentLevel.blackHoles, after),
         lethal |-> lethal,
         goalTest |-> goal,
         died |-> outcome = "death",
         completed |-> outcome = "complete",
         progressKept |-> /\ result.currentLevel = currentLevel
                          /\ result.gameState.levelsCompleted = gameState.levelsCompleted,
         jumpsSinceLanding |-> IF touchedDown THEN 0 ELSE obs.jumpsSinceLanding,
         jumpsSinceSurface |-> IF touchedDown \/ respawned THEN 0
                               ELSE obs.jumpsSinceSurface,
         flightCommand |-> obs.flightCommand /\ ~touchedDown /\ ~respawned,
         flightCommandEffect |-> obs.flightCommandEffect,
         wrapped |-> flew /\ after.screenWrapped,
         wrapCollapsed |-> flew /\ after.screenWrapped
                           /\ after.prevX = after.x /\ after.prevY = after.y,
         pointLethal |-> InsideBlackHole(currentLevel.blackHoles, after),
         pointGoal |-> InsideGoal(currentLevel, after),
         spawn |-> IF ~result.gameState.gameStarted THEN "none"
                   ELSE IF outcome = "death" THEN "death"
                   ELSE IF outcome = "complete" THEN "complete"
                   ELSE "none"]

\* The frame's effect on the session, and its history.
FrameApply(before, after, lethal, goal, outcome, result) ==
    /\ gameState' = result.gameState
    /\ currentLevel' = result.currentLevel
    /\ player' = result.player
    /\ obs' = FrameHistory(before, after, lethal, goal, outcome, result)

FrameDecide(gs, before, after, lethal, goal, outcome) ==
    FrameApply(before, after, lethal, goal, outcome,
               FrameResult(gs, currentLevel, after, outcome))

\* Black-hole collision and goal are evaluated on the body after the physics.
FrameCheck(gs, before, after) ==
    FrameDecide(gs, before, after,
                checkBlackHoleCollision(after, currentLevel.blackHoles),
                checkGoal(currentLevel, after),
                FrameOutcome(checkBlackHoleCollision(after, currentLevel.blackHoles),
                             checkGoal(currentLevel, after)))

\* prevX / prevY are stored, then the physics runs on the combined keys.
FramePhysics(before, mobile, deltaTime) ==
    FrameCheck([gameState EXCEPT !.mobileInput = mobile], before,
               updatePhysics(before, currentLevel,
                             [left |-> gameState.keys.left \/ mobile.left,
                              right |-> gameState.keys.right \/ mobile.right],
                             mobile, deltaTime))

\* gameLoop -> update(deltaTime)
Frame(deltaTime) ==
    IF ~gameState.gameStarted \/ gameState.paused
    THEN UNCHANGED vars
    ELSE /\ obs.frames < MaxFrames
         /\ FramePhysics([player EXCEPT !.prevX = player.x, !.prevY = player.y],
                         updateMobileInput(gameState.mobileInput), deltaTime)
         /\ UNCHANGED <<segment, generated>>

\* The history of launches after a launch command turned body into launched;
\* the counts saturate at MaxJumpsCounted.
CountLaunch(body, launched) ==
    [obs EXCEPT !.jumpsSinceLanding = IF launched # body THEN Min(@ + 1, MaxJumpsCounted) ELSE @,
                !.jumpsSinceSurface = IF launched # body THEN Min(@ + 1, MaxJumpsCounted) ELSE @,
                !.flightCommand = @ \/ ~body.onPlanet,
                !.flightCommandEffect = @ \/ (~body.onPlanet /\ launched # body),
                !.spawn = IF launched # body THEN "none" ELSE @]

\* A launch command that leaves the body as launched; a key-down or a release
\* is counted in the history.
LaunchCommand(launched, isCounted) ==
    /\ player' = launched
    /\ obs' = IF isCounted THEN CountLaunch(player, launched) ELSE obs

\* The history after the body was replaced by a fresh one at the start position.
CountSpawn ==
    [obs EXCEPT !.crossed = FALSE, !.jumpsSinceSurface = 0, !.flightCommand = FALSE,
                !.spawn = "restart"]

\* handleInput(event) for event.code = code and event.type = keydown / keyup.
\* The Space branch is the launch handler of script.js.
handleInput(code, isKeyDown) ==
    IF code = "Space"
    THEN /\ LaunchCommand(IF isKeyDown /\ gameState.gameStarted
                             /\ player.onPlanet /\ ~player.hasJumped
                          THEN jump(player)
                          ELSE player,
                          isKeyDown)
         /\ UNCHANGED <<gameState, currentLevel, segment, generated>>
    ELSE IF code = "ArrowLeft"
    THEN /\ gameState' = [gameState EXCEPT !.keys.left = isKeyDown]
         /\ UNCHANGED <<currentLevel, player, obs, segment, generated>>
    ELSE IF code = "ArrowRight"
    THEN /\ gameState' = [gameState EXCEPT !.keys.right = isKeyDown]
         /\ UNCHANGED <<currentLevel, player, obs, segment, generated>>
    ELSE IF code = "KeyR" /\ isKeyDown /\ gameState.gameStarted /\ ~gameState.paused
    THEN /\ currentLevel' = LoadLevel(gameState.currentLevelNumber)
         /\ player' = SpawnPlayer(currentLevel')
         /\ obs' = CountSpawn
         /\ UNCHANGED <<gameState, segment, generated>>
    ELSE IF code = "Escape" /\ isKeyDown
    THEN /\ gameState' = IF gameState.gameStarted /\ ~gameState.paused
                         THEN [gameState EXCEPT !.paused = TRUE]
                         ELSE [gameState EXCEPT !.paused = FALSE]
         /\ UNCHANGED <<currentLevel, player, obs, segment, generated>>
    ELSE UNCHANGED vars

\* touchstart / mousedown at horizontal position x
handleMobileStart(x) ==
    IF ~gameState.gameStarted \/ gameState.paused
    THEN UNCHANGED vars
    ELSE /\ gameState' = [gameState EXCEPT !.mobileInput.currentX = x,
                                           !.mobileInput.centerX = x,
                                           !.mobileInput.active = TRUE]
         /\ UNCHANGED <<currentLevel, player, obs, segment, generated>>

\* touchmove / mousemove to horizontal position x
handleMobileMove(x) ==
    IF ~gameState.mobileInput.active \/ ~gameState.gameStarted \/ gameState.paused
    THEN UNCHANGED vars
    ELSE /\ gameState' = [gameState EXCEPT !.mobileInput.currentX = x]
         /\ UNCHANGED <<currentLevel, player, obs, segment, generated>>

\* touchend / mouseup: releasing launches when no keyboard input is held
handleMobileEnd ==
    IF ~gameState.mobileInput.active
    THEN UNCHANGED vars
    ELSE LET hasKeyboardInput == gameState.keys.left \/ gameState.keys.right
         IN  /\ LaunchCommand(IF ~hasKeyboardInput /\ player.onPlanet /\ ~player.hasJumped
                              THEN jump(player)
                              ELSE player,
                              TRUE)
             /\ gameState' = [gameState EXCEPT !.mobileInput.active = FALSE]
             /\ UNCHANGED <<currentLevel, segment, generated>>

\* selectMode(mode, target) -> startGame(mode, target), from the menus shown
\* while no game is running.
selectMode(mode, target) ==
    LET levelNumber == IF mode = "daily" THEN getDailyChallengeSeed
                       ELSE IF mode = "practice" THEN target
                       ELSE 1
    IN  /\ ~gameState.gameStarted
        /\ gameState' = [gameState EXCEPT
                            !.mode = mode,
                            !.gameStarted = TRUE,
                            !.levelsCompleted = 0,
                            !.deaths = 0,
                            !.currentLevelNumber = levelNumber,
                            !.lives = IF mode \in {"endless", "daily"} THEN 3 ELSE Infinity,
                            !.speedrunTarget = IF mode = "speedrun" THEN target ELSE @]
        /\ currentLevel' = LoadLevel(levelNumber)
        /\ player' = SpawnPlayer(currentLevel')
        /\ obs' = InitialObs
        /\ UNCHANGED <<segment, generated>>

\* The Resume button of the pause menu.
resumeGame ==
    /\ gameState.paused
    /\ gameState' = [gameState EXCEPT !.paused = FALSE]
    /\ UNCHANGED <<currentLevel, player, obs, segment, generated>>

\* The Restart button of the pause menu.
restartLevel ==
    /\ gameState.paused
    /\ gameState' = [gameState EXCEPT !.paused = FALSE]
    /\ currentLevel' = LoadLevel(gameState.currentLevelNumber)
    /\ player' = SpawnPlayer(currentLevel')
    /\ obs' = CountSpawn
    /\ UNCHANGED <<segment, generated>>

\* The Quit button of the pause menu: quitToMenu -> showMainMenu.
quitToMenu ==
    /\ gameState.paused
    /\ gameState' = [gameState EXCEPT !.gameStarted = FALSE, !.paused = FALSE]
    /\ UNCHANGED <<currentLevel, player, obs, segment, generated>>

Next ==
    \/ \E deltaTime \in DeltaTimes : Frame(deltaTime)
    \/ \E code \in KeyCodes, isKeyDown \in BOOLEAN : handleInput(code, isKeyDown)
    \/ \E x \in TouchPositions : handleMobileStart(x)
    \/ \E x \in TouchMoves : handleMobileMove(x)
    \/ handleMobileEnd
    \/ \E choice \in ModeChoices : selectMode(choice[1], choice[2])
    \/ resumeGame
    \/ restartLevel
    \/ quitToMenu

Spec == Init /\ [][Next]_vars

\* C2: whenever a frame's flight segment (position before the integration to
\* position after it) met a planet's landing circle (radius planet.radius +
\* body.radius), the body lands: at the latest the landing test that follows
\* that integration, in the next frame, puts it on a planet.
C2_NoTunnelingThroughPlanets == ~obs.tunnelled

\* C3: in every frame in which the flying body's travel segment (previous
\* position to current position) meets the circle of radius blackHole.radius +
\* body.radius around a black hole of the level, handlePlayerDeath runs.
C3_NoTunnelingThroughBlackHoles ==
    (obs.flew /\ obs.blackHoleSegment) => obs.died

\* The case of C3: a death in a frame whose travel segment passes through a
\* black hole's circle with both of its ends outside the circle.
C3_Witness ==
    /\ obs.flew
    /\ obs.blackHoleSegment
    /\ obs.endsOutside
    /\ obs.died

\* C4: in a frame where the black-hole test and the goal test are both true,
\* only the death is processed: handlePlayerDeath runs, handleLevelComplete
\* does not, and levelsCompleted and the current level are unchanged.
C4_DeathBeforeGoal ==
    (obs.lethal /\ obs.goalTest) => (obs.died /\ ~obs.completed /\ obs.progressKept)

\* The case of C4: a frame in which both tests are true, processed as a death.
C4_Witness ==
    /\ obs.lethal
    /\ obs.goalTest
    /\ obs.died

\* C5 as stated: between two consecutive landings at most one call of jump()
\* takes effect, and a launch command received in flight changes nothing.
C5_OncePerLandingInterval ==
    /\ obs.jumpsSinceLanding <= 1
    /\ ~obs.flightCommandEffect

\* C5, amended: since the last landing or spawn (a fresh Player placed on the
\* start planet by a restart, a death or a level change) at most one call of
\* jump() takes effect, and a launch command received in flight leaves the
\* body unchanged.
C5_OncePerSurfaceOccupancy ==
    /\ obs.jumpsSinceSurface <= 1
    /\ ~obs.flightCommandEffect

\* The case of C5: the body was launched once from its surface and a further
\* launch command arrived while it was in flight.
C5_Witness ==
    /\ obs.jumpsSinceSurface = 1
    /\ obs.flightCommand
    /\ ~player.onPlanet

\* C10: in every state with the body on a surface, the state right after the
\* Player's construction included, the position is the point at distance
\* planet.radius + body.radius + 2 px from the planet's centre along the
\* body's angle (to within 1 px on each axis).
C10_SurfaceConsistency ==
    player.onPlanet =>
        /\ Abs(player.x - SurfaceX(player.currentPlanet, player.angle,
                                   player.currentPlanet.radius + player.radius + 20)) <= 10
        /\ Abs(player.y - SurfaceY(player.currentPlanet, player.angle,
                                   player.currentPlanet.radius + player.radius + 20)) <= 10

\* C14: for every levelNumber from 1 to 5, generateLevel returns a level of
\* archetype "simple" with no black hole and 3 or 4 planets, as many as the
\* count drawn at the start of _generateSimple: no planet is dropped.
C14_TutorialTierShape ==
    generated.levelNumber <= 5 =>
        \A i \in 1..Len(generated.levels) :
            /\ generated.levels[i].archetype = "simple"
            /\ Len(generated.levels[i].blackHoles) = 0
            /\ Len(generated.levels[i].planets) \in 3..4
            /\ Len(generated.levels[i].planets)
                 = 3 + RandFloor(random(generated.levelNumber), 2, 1)

\* The case of C14: a tutorial level generated, with all of the three planets
\* its first draw asks for.
C14_Witness ==
    /\ generated.levelNumber <= 5
    /\ Len(generated.levels) >= 1
    /\ Len(generated.levels[1].planets) = 3
    /\ generated.levels[1].archetype = "simple"

\* A Level as the game uses it: at least one planet, every planet with a
\* radius, a start position and a goal position on the canvas, at most three
\* black holes, each with a radius of 8 to 11 px.
IsLevel(level) ==
    /\ Len(level.planets) >= 1
    /\ \A i \in 1..Len(level.planets) : level.planets[i].radius > 0
    /\ level.startPosition.x \in Int /\ level.startPosition.y \in Int
    /\ level.goalPosition.x \in 500..(CANVAS_WIDTH - 500)
    /\ level.goalPosition.y \in 500..(CANVAS_HEIGHT - 500)
    /\ Len(level.blackHoles) <= 3
    /\ \A i \in 1..Len(level.blackHoles) : level.blackHoles[i].radius \in 80..110

\* C15: every call of generateLevel with a level number >= 1 ends and returns
\* a Level: the placement loops stop at their attempt limits, and a planet or
\* black hole that found no position is left out.
C15_GeneratorTotal ==
    \A i \in 1..Len(generated.levels) : IsLevel(generated.levels[i])

\* The case of C15: a level returned although placements ran out of attempts:
\* a precision or giant level with fewer planets than the loop was to place.
C15_Witness ==
    /\ Len(generated.levels) >= 1
    /\ generated.levels[1].archetype \in {"precision", "giant"}
    /\ Len(generated.levels[1].planets)
         < TierConfig(generated.levelNumber, InitialSeed(generated.levelNumber)).planetCount[1]
    /\ IsLevel(generated.levels[1])

\* The black holes of the level keep their distances: >= planet.radius + 80 px
\* from every planet, >= 100 px from the goal, >= 120 px from the start and
\* >= 150 px from one another.
BlackHolesApart(level) ==
    \A b \in 1..Len(level.blackHoles) :
        /\ \A i \in 1..Len(level.planets) :
               DistSquared(level.blackHoles[b].x, level.blackHoles[b].y,
                           level.planets[i].x, level.planets[i].y)
                   >= (level.planets[i].radius + 800) * (level.planets[i].radius + 800)
        /\ DistSquared(level.blackHoles[b].x, level.blackHoles[b].y,
                       level.goalPosition.x, level.goalPosition.y) >= 1000 * 1000
        /\ DistSquared(level.blackHoles[b].x, level.blackHoles[b].y,
                       level.startPosition.x, level.startPosition.y) >= 1200 * 1200
        /\ \A c \in 1..Len(level.blackHoles) :
               c # b => DistSquared(level.blackHoles[b].x, level.blackHoles[b].y,
                                    level.blackHoles[c].x, level.blackHoles[c].y)
                            >= 1500 * 1500

\* C16: in every generated level the black holes keep their distances from
\* planets, goal, start and one another, and there are at most as many as the
\* tier's blackHoleCount: none up to level 50, never more than three.
C16_BlackHolePlacement ==
    \A i \in 1..Len(generated.levels) :
        /\ BlackHolesApart(generated.levels[i])
        /\ Len(generated.levels[i].blackHoles)
             <= TierConfig(generated.levelNumber, InitialSeed(generated.levelNumber)).blackHoleCount
        /\ Len(generated.levels[i].blackHoles) <= 3
        /\ generated.levelNumber <= 50 => Len(generated.levels[i].blackHoles) = 0

\* The case of C16: a level of the last tier (blackHoleCount capped at three)
\* generated with three black holes.
C16_Witness ==
    /\ Len(generated.levels) >= 1
    /\ generated.levelNumber >= 200
    /\ Len(generated.levels[1].blackHoles) = 3
    /\ BlackHolesApart(generated.levels[1])

\* C13: in every frame in which wrapScreenPosition changes the body's
\* position, the segment that checkBlackHoleCollision and checkGoal use has
\* both ends at the wrapped position, and a black hole or the goal is hit in
\* that frame only if the wrapped position itself lies within its circle.
C13_NoSpuriousHitOnWrap ==
    obs.wrapped =>
        /\ obs.wrapCollapsed
        /\ obs.lethal => obs.pointLethal
        /\ obs.goalTest => obs.pointGoal

\* The case of C13: a frame whose flight step wrapped the body.
C13_Witness == obs.wrapped /\ obs.wrapCollapsed /\ obs.flew

\* C17: in every state with the body on a surface, its currentPlanet is one
\* of the planets of the current level.
C17_OccupiedPlanetOfCurrentLevel ==
    player.onPlanet =>
        \E i \in 1..Len(currentLevel.planets) : currentLevel.planets[i] = player.currentPlanet

\* The case of C17: after a frame in flight the body has landed, in a level
\* other than the one init() generated, on a planet that is not the start planet.
C17_Witness ==
    /\ player.onPlanet
    /\ obs.frames >= 2
    /\ currentLevel # InitialLevel
    /\ player.currentPlanet # currentLevel.planets[1]
    /\ \E i \in 2..Len(currentLevel.planets) : currentLevel.planets[i] = player.currentPlanet

\* C18: after every spawn (init and startGame, a level completion that loads
\* the next level, a death that leaves the game running, a restart by KeyR or
\* restartLevel) the body is a fresh Player: on the surface of the current
\* level's first planet, at the level's start position, with no velocity, no
\* angular speed and hasJumped false.
C18_SpawnOnFirstPlanet ==
    obs.spawn # "none" =>
        /\ player.onPlanet
        /\ player.currentPlanet = currentLevel.planets[1]
        /\ player.x = currentLevel.startPosition.x
        /\ player.y = currentLevel.startPosition.y
        /\ player.vx = 0
        /\ player.vy = 0
        /\ player.angularSpeed = 0
        /\ ~player.hasJumped

\* The case of C18: the spawn after a level completion, in the next level.
C18_Witness ==
    /\ obs.spawn = "complete"
    /\ obs.completed
    /\ gameState.levelsCompleted = 1
    /\ player.onPlanet

(***************************************************************************)
(* Calls of updatePhysics and jump on a body of a level                    *)
(***************************************************************************)
\* Calls made on one body.
MaxBodySteps == 3

\* The levels the body is put in; in level 37 (void) landing circles overlap.
BodyLevels == {1, 37, 1017}

\* Angles (thousandths of a degree) and angular speeds (thousandths of a degree
\* per second) of a body that has been running on a planet: at rest, after
\* one frame, at escapeThreshold * baseAngularSpeed, at full speed.
BodyAngles == {30000, 200000}

BodySpeeds == {0, 13770, -81000, 1527351, -1527351, 2160000, -2160000}

\* gameState.keys
KeyStates == {[left |-> l, right |-> r] : l, r \in BOOLEAN}

\* gameState.mobileInput after updateMobileInput: no touch, the joystick
\* dragged 60 px to the right, and 30 px to the left.
MobileStates ==
    {updateMobileInput(InitialMobileInput),
     updateMobileInput([InitialMobileInput EXCEPT !.active = TRUE, !.centerX = 400, !.currentX = 460]),
     updateMobileInput([InitialMobileInput EXCEPT !.active = TRUE, !.centerX = 400, !.currentX = 370])}

NoKeys == [left |-> FALSE, right |-> FALSE]

\* A body on no planet.
NoBody == Player(0, 0, NullPlanet)

\* The body on the surface of planet at angle, turning at angularSpeed: the
\* state the surface step of updatePhysics leaves.
RunningOn(planet, angle, angularSpeed) ==
    [Player(SurfaceX(planet, angle, planet.radius + 100),
            SurfaceY(planet, angle, planet.radius + 100), planet)
        EXCEPT !.angle = angle, !.angularSpeed = angularSpeed]

\* The body in flight between two planets, on the line of their centres at
\* the fraction radius / (radius + other.radius) of the way: after jump() and
\* a frame of free fall that has used up its velocity.
FlyingBetween(planet, other) ==
    [Player(planet.x + Rnd((other.x - planet.x) * planet.radius, planet.radius + other.radius),
            planet.y + Rnd((other.y - planet.y) * planet.radius, planet.radius + other.radius),
            planet)
        EXCEPT !.onPlanet = FALSE, !.hasJumped = TRUE]

\* The bodies of a level: the fresh spawn, a body running on any planet, and
\* a body in flight between any two planets.
BodiesOf(level) ==
    {SpawnPlayer(level)}
        \cup {RunningOn(level.planets[i], angle, angularSpeed) :
                 i \in 1..Len(level.planets), angle \in BodyAngles, angularSpeed \in BodySpeeds}
        \cup {FlyingBetween(level.planets[i], level.planets[j]) :
                 i \in 1..Len(level.planets), j \in 1..Len(level.planets)}

\* No call made yet.
NoCall ==
    [op |-> "none", steps |-> 0, before |-> NoBody, keys |-> NoKeys,
     mobile |-> InitialMobileInput, deltaTime |-> 0,
     rested |-> 0,         \* the latest calls that were surface steps at rest with no input
     origin |-> NoBody]    \* the body before the first of them

\* A surface step of a body at rest with no directional input: no key held, no
\* touch on the joystick.
AtRestUnsteered(self, keys, mobile) ==
    /\ self.onPlanet
    /\ self.currentPlanet # NullPlanet
    /\ self.angularSpeed = 0
    /\ ~keys.left
    /\ ~keys.right
    /\ ~mobile.active
    /\ mobile.targetSpeed = 0

InitBody ==
    /\ gameState = InitialGameState
    /\ currentLevel \in {generateLevel(n) : n \in BodyLevels}
    /\ player \in BodiesOf(currentLevel)
    /\ obs = NoCall
    /\ segment = NoSegment
    /\ generated = NoGeneration

\* update(): prevX / prevY are stored, then player.updatePhysics(planets,
\* combinedKeys, deltaTime) runs with gameState.mobileInput = mobile.
UpdatePhysicsCall(keys, mobile, deltaTime) ==
    /\ obs.steps < MaxBodySteps
    /\ player' = updatePhysics([player EXCEPT !.prevX = player.x, !.prevY = player.y],
                               currentLevel,
                               [left |-> keys.left \/ mobile.left,
                                right |-> keys.right \/ mobile.right],
                               mobile, deltaTime)
    /\ obs' = [op |-> "updatePhysics", steps |-> obs.steps + 1, before |-> player,
               keys |-> [left |-> keys.left \/ mobile.left,
                         right |-> keys.right \/ mobile.right],
               mobile |-> mobile, deltaTime |-> deltaTime,
               rested |-> IF AtRestUnsteered(player, keys, mobile) THEN obs.rested + 1 ELSE 0,
               origin |-> IF ~AtRestUnsteered(player, keys, mobile) THEN NoBody
                          ELSE IF obs.rested > 0 THEN obs.origin
                          ELSE player]
    /\ UNCHANGED <<gameState, currentLevel, segment, generated>>

\* player.jump()
JumpCall ==
    /\ obs.steps < MaxBodySteps
    /\ player' = jump(player)
    /\ obs' = [op |-> "jump", steps |-> obs.steps + 1, before |-> player,
               keys |-> NoKeys, mobile |-> InitialMobileInput, deltaTime |-> 0,
               rested |-> 0, origin |-> NoBody]
    /\ UNCHANGED <<gameState, currentLevel, segment, generated>>

NextBody ==
    \/ \E keys \in KeyStates, mobile \in MobileStates, deltaTime \in DeltaTimes :
           UpdatePhysicsCall(keys, mobile, deltaTime)
    \/ JumpCall

SpecBody == InitBody /\ [][NextBody]_vars

\* The last call was updatePhysics and it landed the body: in flight before
\* the call, on a planet after it.
LandedInCall == obs.op = "updatePhysics" /\ ~obs.before.onPlanet /\ player.onPlanet

\* The body is on a planet that passed the landing test of the call, with no
\* velocity and the launched flag cleared.
LandedOnSurface ==
    /\ player.onPlanet
    /\ ShouldLand([obs.before EXCEPT !.prevX = obs.before.x, !.prevY = obs.before.y],
                  player.currentPlanet)
    /\ \E i \in 1..Len(currentLevel.planets) : currentLevel.planets[i] = player.currentPlanet
    /\ player.vx = 0
    /\ player.vy = 0
    /\ ~player.hasJumped

\* C11 as stated: at the end of every updatePhysics call in which the body
\* lands, whatever inputs are held, the body is on the landed planet with
\* vx = 0, vy = 0, angular speed 0 and hasJumped false.
C11_LandingResetsBody ==
    LandedInCall => (LandedOnSurface /\ player.angularSpeed = 0)

\* C11, amended: at the end of every updatePhysics call in which the body
\* lands it is on the landed planet with vx = 0, vy = 0 and hasJumped false, and
\* its angular speed is one surface step away from rest: 0 with no directional
\* input, else the target speed's sign times min(|target|, angularAcceleration * dt).
C11_LandingResetsThenRuns ==
    LandedInCall =>
        /\ LandedOnSurface
        /\ player.angularSpeed
              = Sign(TargetSpeed(obs.keys, obs.mobile))
                  * Min(Abs(TargetSpeed(obs.keys, obs.mobile)),
                        angularAcceleration * obs.deltaTime)

\* The case of C11: a landing in a call with a direction held, which leaves
\* the landed body turning.
C11_Witness ==
    /\ LandedInCall
    /\ (obs.keys.left \/ obs.keys.right)
    /\ player.angularSpeed # 0

\* The last call was updatePhysics on a body that was already on its planet.
SurfaceStepInCall == obs.op = "updatePhysics" /\ obs.before.onPlanet

\* C12: in every surface step in which the combined left and right inputs
\* handed to updatePhysics are both true, the target angular speed is zero and
\* the magnitude of the angular speed does not increase in that step.
C12_BothHeldBrakes ==
    (SurfaceStepInCall /\ obs.keys.left /\ obs.keys.right) =>
        /\ TargetSpeed(obs.keys, obs.mobile) = 0
        /\ Abs(player.angularSpeed) <= Abs(obs.before.angularSpeed)

\* The last call was jump() on a body that was on its planet.
JumpedInCall == obs.op = "jump" /\ obs.before.onPlanet /\ obs.before.currentPlanet # NullPlanet

\* The outward radial direction at the body before the call, in whole degrees.
RadialAngleBefore ==
    Atan2(obs.before.y - obs.before.currentPlanet.y, obs.before.x - obs.before.currentPlanet.x)

\* 1000 times the velocity component along the outward radial direction, and
\* along the tangent in the direction of increasing angle.
RadialComponent == player.vx * Cos(RadialAngleBefore) + player.vy * Sin(RadialAngleBefore)

TangentialComponent == player.vy * Cos(RadialAngleBefore) - player.vx * Sin(RadialAngleBefore)

\* |w| * (planet.radius + body.radius + 2), w in rad/s, for an angular speed
\* in thousandths of a degree per second.
LinearSpeed(angularSpeed, planet, body) ==
    Rnd(Scaled(Scaled(Abs(angularSpeed), 17453), planet.radius + body.radius + 20), 1000)

\* escapeThreshold * baseAngularSpeed
EscapeSpeed == Scaled(baseAngularSpeed, escapeThreshold) \div 1000

\* C19: after jump() from a planet with angular speed w the velocity component
\* tangent to the surface is |w| * (planet.radius + body.radius + 2) in the
\* direction of rotation (the sign of w) and the outward radial component is the
\* fixed push of 50 px/s, both within one percent plus 0.2 px/s, the tolerance
\* of the rational sine and cosine; at |w| = escapeThreshold * baseAngularSpeed
\* the tangential speed is baseAngularSpeed * escapeThreshold * orbitalRadius.
C19_LaunchVelocityDecomposition ==
    JumpedInCall =>
        /\ Abs(RadialComponent - 500 * 1000) <= 5 * 1000 + 2000
        /\ Abs(TangentialComponent
                 - Sign(obs.before.angularSpeed)
                     * LinearSpeed(obs.before.angularSpeed, obs.before.currentPlanet, obs.before) * 1000)
              <= 10 * LinearSpeed(obs.before.angularSpeed, obs.before.currentPlanet, obs.before) + 2000
        /\ Abs(obs.before.angularSpeed) = EscapeSpeed =>
              Abs(Abs(TangentialComponent)
                    - LinearSpeed(EscapeSpeed, obs.before.currentPlanet, obs.before) * 1000)
                 <= 10 * LinearSpeed(EscapeSpeed, obs.before.currentPlanet, obs.before) + 2000
        /\ ~player.onPlanet
        /\ player.hasJumped

\* The case of C19: a launch at exactly the escape speed, turning clockwise.
C19_Witness ==
    /\ JumpedInCall
    /\ obs.before.angularSpeed = -EscapeSpeed
    /\ TangentialComponent < 0

\* C20: over any number of updatePhysics steps of a body that was on a planet
\* with angular speed 0, all with no directional input (no key held, the
\* joystick untouched), the body stays on that planet at the same angle with
\* angular speed 0.
C20_RestIsFixedPoint ==
    obs.rested >= 1 =>
        /\ obs.op = "updatePhysics"
        /\ player.onPlanet
        /\ player.currentPlanet = obs.origin.currentPlanet
        /\ player.angle = obs.origin.angle
        /\ player.angularSpeed = 0
        /\ obs.origin.onPlanet
        /\ obs.origin.angularSpeed = 0

\* The case of C20: every call made on a body running on a planet other than
\* the start planet was a step at rest, of 100 ms at last.
C20_Witness ==
    /\ obs.rested = MaxBodySteps
    /\ obs.deltaTime = 100
    /\ obs.origin.currentPlanet # currentLevel.planets[1]
    /\ player.onPlanet
    /\ player.angle = obs.origin.angle

\* C21: in every state reached by any sequence of updatePhysics and jump calls,
\* with any keys, mobile target speed and dt, the angular speed lies in
\* -baseAngularSpeed .. +baseAngularSpeed.
C21_AngularSpeedInBand ==
    /\ -baseAngularSpeed <= player.angularSpeed
    /\ player.angularSpeed <= baseAngularSpeed

\* The case of C21: a surface step of 100 ms at full speed with the direction
\* of rotation still held, which leaves the speed at the edge of the band.
C21_Witness ==
    /\ SurfaceStepInCall
    /\ obs.before.angularSpeed = baseAngularSpeed
    /\ obs.keys.right
    /\ ~obs.keys.left
    /\ obs.deltaTime = 100
    /\ player.angularSpeed = baseAngularSpeed

\* No game is running, or the running game is paused.
Frozen == gameState.paused \/ ~gameState.gameStarted

\* The step is a frame or an input event: key down / up, touch or mouse
\* start / move / end.
FrameOrInputEvent ==
    \/ \E deltaTime \in DeltaTimes : Frame(deltaTime)
    \/ \E code \in KeyCodes, isKeyDown \in BOOLEAN : handleInput(code, isKeyDown)
    \/ \E x \in TouchPositions : handleMobileStart(x)
    \/ \E x \in TouchMoves : handleMobileMove(x)
    \/ handleMobileEnd

\* C26: while the game is paused or not started, no frame and no input event
\* changes the body's mode (onPlanet), position, velocity or hasJumped flag.
C26_PauseFreezesBody ==
    [][(Frozen /\ FrameOrInputEvent) =>
           /\ player'.onPlanet = player.onPlanet
           /\ player'.x = player.x
           /\ player'.y = player.y
           /\ player'.vx = player.vx
           /\ player'.vy = player.vy
           /\ player'.hasJumped = player.hasJumped]_vars

\* C27: in every reachable state of the session, whose Players are all
\* created on a planet, hasJumped is true exactly when onPlanet is false.
C27_LaunchedFlagMirrorsMode == player.hasJumped = ~player.onPlanet

\* The case of C27: the body has landed on a planet other than the start
\* planet, in the frame after a frame of flight, and the flag is cleared again.
C27_Witness ==
    /\ obs.frames >= 2
    /\ player.onPlanet
    /\ ~player.hasJumped
    /\ player.currentPlanet # currentLevel.planets[1]
    /\ obs.jumpsSinceSurface = 0

(***************************************************************************)
(* Calls of calculateGravity on the gravity sources of a level             *)
(***************************************************************************)
\* The levels whose sources are tried: the first level, and one with black holes.
GravityLevels == {1, 200}

\* Spacing of the grid of body positions on the canvas (deci-pixels).
GravityGrid == 500

\* Planets, goal and black holes of a level as gravity sources.
GravitySources(level) ==
    level.planets
        \o <<GoalSource(level)>>
        \o [j \in 1..Len(level.blackHoles) |-> BlackHoleSource(level.blackHoles[j])]

\* Offsets from a source's centre along one axis: the centre, inside the
\* source, 0.1 px inside, on and 0.1 px outside the guard distance radius + 5.
GuardOffsets(source) ==
    {0, source.radius, source.radius + 49, source.radius + 50, source.radius + 51}

\* Body positions tried against a source: a grid over the canvas, and points
\* around the guard distance on both axes, both sides and the diagonal.
GravityPositions(source) ==
    {<<gx * GravityGrid, gy * GravityGrid>> :
        gx \in 0..(CANVAS_WIDTH \div GravityGrid), gy \in 0..(CANVAS_HEIGHT \div GravityGrid)}
      \cup {<<source.x + sx * d, source.y + sy * d>> :
               d \in GuardOffsets(source), sx \in {-1, 0, 1}, sy \in {-1, 0, 1}}

NoForce ==
    [op |-> "none", source |-> NullPlanet, px |-> 0, py |-> 0, force |-> [x |-> 0, y |-> 0]]

InitGravity ==
    /\ gameState = InitialGameState
    /\ currentLevel \in {generateLevel(n) : n \in GravityLevels}
    /\ player = SpawnPlayer(currentLevel)
    /\ obs = NoForce
    /\ segment = NoSegment
    /\ generated = NoGeneration

\* source.calculateGravity(player) with the player at (px, py)
CalculateGravityCall(source, px, py) ==
    /\ obs.op = "none"
    /\ obs' = [op |-> "calculateGravity", source |-> source, px |-> px, py |-> py,
               force |-> calculateGravity(source, px, py)]
    /\ UNCHANGED <<gameState, currentLevel, player, segment, generated>>

NextGravity ==
    \E i \in 1..Len(GravitySources(currentLevel)) :
        \E position \in GravityPositions(GravitySources(currentLevel)[i]) :
            CalculateGravityCall(GravitySources(currentLevel)[i], position[1], position[2])

SpecGravity == InitGravity /\ [][NextGravity]_vars

\* The body of the last call is closer to the source's centre than radius + 5.
WithinGuard ==
    DistSquared(obs.source.x, obs.source.y, obs.px, obs.py)
        < (obs.source.radius + 50) * (obs.source.radius + 50)

\* C22: calculateGravity of a planet, the goal or a black hole returns the
\* zero vector when the body is closer to the centre than radius + 5; otherwise
\* the distance divided by is positive, no component of the force points away
\* from the source, a component is zero where the offset on its axis is zero, and
\* the component on the axis of the larger offset has the sign of that offset
\* (the component on the other axis may be below the fixed-point resolution).
C22_GravityGuard ==
    obs.op = "calculateGravity" =>
        IF WithinGuard
        THEN obs.force = [x |-> 0, y |-> 0]
        ELSE /\ Sqrt(DistSquared(obs.source.x, obs.source.y, obs.px, obs.py)) > 0
             /\ Sign(obs.force.x) \in {0, Sign(obs.source.x - obs.px)}
             /\ Sign(obs.force.y) \in {0, Sign(obs.source.y - obs.py)}
             /\ Abs(obs.source.x - obs.px) >= Abs(obs.source.y - obs.py)
                   => Sign(obs.force.x) = Sign(obs.source.x - obs.px)
             /\ Abs(obs.source.y - obs.py) >= Abs(obs.source.x - obs.px)
                   => Sign(obs.force.y) = Sign(obs.source.y - obs.py)

\* The case of C22: a black hole pulls a body exactly at the guard distance,
\* to the left of it, to the right.
C22_Witness ==
    /\ obs.op = "calculateGravity"
    /\ obs.source.gravityStrength = 15000
    /\ obs.py = obs.source.y
    /\ obs.source.x - obs.px = obs.source.radius + 50
    /\ obs.force.x > 0
    /\ obs.force.y = 0

\* The body as the landing loop of the last call saw it: update() has stored
\* the position as the previous position.
Approaching == [obs.before EXCEPT !.prevX = obs.before.x, !.prevY = obs.before.y]

\* C23: a body that lands in an updatePhysics call lands on a planet of the
\* current level that passes the landing test, and no planet earlier in
\* currentLevel.planets passes it.
C23_LandsOnFirstInLevelOrder ==
    LandedInCall =>
        \E i \in 1..Len(currentLevel.planets) :
            /\ player.currentPlanet = currentLevel.planets[i]
            /\ ShouldLand(Approaching, currentLevel.planets[i])
            /\ \A j \in 1..(i - 1) : ~ShouldLand(Approaching, currentLevel.planets[j])

\* The case of C23: the body lands where two planets pass the landing test.
C23_Witness ==
    /\ LandedInCall
    /\ \E i, j \in 1..Len(currentLevel.planets) :
           /\ i < j
           /\ player.currentPlanet = currentLevel.planets[i]
           /\ ShouldLand(Approaching, currentLevel.planets[i])
           /\ ShouldLand(Approaching, currentLevel.planets[j])

\* C25: in a surface step with no directional input (no key held, the
\* joystick untouched) the angular speed moves toward zero by
\* angularDeceleration * dt, snapping to zero when closer than that; in a step
\* with one key held and the target not yet within reach it changes by
\* angularAcceleration * dt; the two rates differ.
C25_ReleaseBrakesAtDeceleration ==
    /\ angularDeceleration # angularAcceleration
    /\ (SurfaceStepInCall /\ ~obs.keys.left /\ ~obs.keys.right /\ obs.mobile.targetSpeed = 0) =>
           player.angularSpeed
              = obs.before.angularSpeed
                  - Sign(obs.before.angularSpeed)
                      * Min(Abs(obs.before.angularSpeed), angularDeceleration * obs.deltaTime)
    /\ (SurfaceStepInCall /\ (obs.keys.left # obs.keys.right) /\ obs.mobile.targetSpeed = 0
          /\ Abs(TargetSpeed(obs.keys, obs.mobile) - obs.before.angularSpeed)
                >= angularAcceleration * obs.deltaTime) =>
           Abs(player.angularSpeed - obs.before.angularSpeed)
              = angularAcceleration * obs.deltaTime

\* C30: after the physics of every frame of update() that leaves the body in
\* Surface mode, whether it started there or landed in the frame,
\* checkBlackHoleCollision is false for the black holes of the level.
C30_NoDeathOnSurface ==
    (obs.op = "updatePhysics" /\ player.onPlanet) =>
        ~checkBlackHoleCollision(player, currentLevel.blackHoles)

\* The case of C30: in a level with black holes the body has crossed its
\* planet's disc in a surface step at full speed, or has landed, and the
\* black-hole test of the frame is false.
C30_Witness ==
    /\ obs.op = "updatePhysics"
    /\ player.onPlanet
    /\ Len(currentLevel.blackHoles) >= 1
    /\ obs.deltaTime = 100
    /\ \/ LandedInCall
       \/ Abs(obs.before.angularSpeed) = baseAngularSpeed
    /\ ~checkBlackHoleCollision(player, currentLevel.blackHoles)

(***************************************************************************)
(* A run on a planet with one direction held, frame after frame            *)
(***************************************************************************)
\* Frames of one run: enough for -baseAngularSpeed to +baseAngularSpeed in
\* frames of 17 ms (4320000 / (810 * 17) = 313.7).
MaxRunSteps == 320

\* The keys of a run: only the held direction.
HeldKeys(held) == [left |-> held = "left", right |-> held = "right"]

\* No frame run yet; the direction held and the frame time of the run.
NoRun(held, deltaTime) ==
    [op |-> "none", steps |-> 0, held |-> held, deltaTime |-> deltaTime]

InitRun ==
    /\ gameState = InitialGameState
    /\ currentLevel = InitialLevel
    /\ player \in {RunningOn(currentLevel.planets[i], 30000, angularSpeed) :
                      i \in 1..Len(currentLevel.planets), angularSpeed \in BodySpeeds}
    /\ obs \in {NoRun(held, deltaTime) : held \in {"left", "right"}, deltaTime \in DeltaTimes}
    /\ segment = NoSegment
    /\ generated = NoGeneration

\* update() with the direction held and no touch: the previous position is
\* stored and player.updatePhysics(planets, combinedKeys, deltaTime) runs.
RunStep ==
    /\ obs.steps < MaxRunSteps
    /\ player' = updatePhysics([player EXCEPT !.prevX = player.x, !.prevY = player.y],
                               currentLevel, HeldKeys(obs.held), InitialMobileInput,
                               obs.deltaTime)
    /\ obs' = [obs EXCEPT !.op = "updatePhysics", !.steps = @ + 1]
    /\ UNCHANGED <<gameState, currentLevel, segment, generated>>

NextRun == RunStep

SpecRun == InitRun /\ [][NextRun]_vars

\* requestAnimationFrame keeps calling gameLoop: the next frame always comes.
SpecRunFair == SpecRun /\ WF_vars(RunStep)

\* The speed the held direction runs to.
RunTarget == IF obs.held = "right" THEN baseAngularSpeed ELSE -baseAngularSpeed

\* C24: on a surface with only one direction held and no mobile input, over
\* consecutive steps with dt > 0, the angular speed never moves away from the
\* held direction (non-decreasing for right, non-increasing for left), reaches
\* exactly +baseAngularSpeed (right) or -baseAngularSpeed (left) after finitely
\* many steps, and stays there in every later step.
C24_HeldDirectionReachesFullSpeed ==
    /\ [][Sign(RunTarget) * (player'.angularSpeed - player.angularSpeed) >= 0]_vars
    /\ <>(player.onPlanet /\ player.angularSpeed = RunTarget)
    /\ [][player.angularSpeed = RunTarget => player'.angularSpeed = RunTarget]_vars

\* The case of C24: a run to the right that started at full speed to the left
\* has reached full speed to the right and has gone on from there.
C24_Witness ==
    /\ obs.held = "right"
    /\ obs.steps = MaxRunSteps
    /\ obs.deltaTime = 17
    /\ player.onPlanet
    /\ player.angularSpeed = baseAngularSpeed
    /\ player.angle > 30000 + 360000

(***************************************************************************)
(* The bookkeeping of a session: lives, deaths, levels                     *)
(***************************************************************************)
\* Deaths of one game.
MaxDeaths == 4

\* getDailyChallengeSeed() at a level completion: the day the session started
\* on, or the next day.
DailySeeds == {getDailyChallengeSeed, getDailyChallengeSeed + 1}

\* The tail of update() in a running game, after the physics: the black-hole
\* test came out as lethal and the goal test as goal, whatever the flight was,
\* on the day of dailySeed.
FrameResultOn(dailySeed, outcome) ==
    IF outcome = "complete"
    THEN handleLevelCompleteOn(dailySeed, gameState, currentLevel, player)
    ELSE FrameResult(gameState, currentLevel, player, outcome)

FrameWith(lethal, goal, dailySeed) ==
    /\ gameState.gameStarted
    /\ ~gameState.paused
    /\ gameState.deaths < MaxDeaths
    /\ gameState.levelsCompleted < MaxFrames
    /\ gameState.mode = "daily" =>
           dailySeed + gameState.levelsCompleted >= currentLevel.seed
    /\ gameState' = FrameResultOn(dailySeed, FrameOutcome(lethal, goal)).gameState
    /\ currentLevel' = FrameResultOn(dailySeed, FrameOutcome(lethal, goal)).currentLevel
    /\ player' = FrameResultOn(dailySeed, FrameOutcome(lethal, goal)).player
    /\ obs' = [obs EXCEPT !.lethal = lethal,
                          !.goalTest = goal,
                          !.died = FrameOutcome(lethal, goal) = "death",
                          !.completed = FrameOutcome(lethal, goal) = "complete"]
    /\ UNCHANGED <<segment, generated>>

NextLives ==
    \/ \E lethal, goal \in BOOLEAN, dailySeed \in DailySeeds :
           FrameWith(lethal, goal, dailySeed)
    \/ \E code \in {"Escape", "KeyR"} : handleInput(code, TRUE)
    \/ \E choice \in ModeChoices : selectMode(choice[1], choice[2])
    \/ resumeGame
    \/ restartLevel
    \/ quitToMenu

SpecLives == Init /\ [][NextLives]_vars

\* The modes that count lives.
CountsLives(gs) == gs.mode \in {"endless", "daily"}

\* The step processes a death.
DeathStep == gameState'.deaths = gameState.deaths + 1

\* C28: in endless and daily mode every death takes exactly one life, lives
\* stays in 1..3 while the game is running, the game stops (gameStarted false,
\* the body not replaced) exactly at the death that brings lives to 0, and
\* while no game is running no death and no level completion is processed; in
\* speedrun and practice mode a death never stops the game.
C28_LivesBoundTheSession ==
    /\ []((gameState.gameStarted /\ CountsLives(gameState)) => gameState.lives \in 1..3)
    /\ [][(DeathStep /\ CountsLives(gameState)) =>
              /\ gameState.gameStarted
              /\ gameState'.lives = gameState.lives - 1
              /\ gameState'.gameStarted = (gameState'.lives > 0)
              /\ gameState'.lives = 0 => player' = player
              /\ gameState'.lives > 0 => player' = SpawnPlayer(currentLevel)]_vars
    /\ [][(~gameState.gameStarted /\ ~gameState'.gameStarted) =>
              /\ gameState'.deaths = gameState.deaths
              /\ gameState'.levelsCompleted = gameState.levelsCompleted
              /\ gameState'.lives = gameState.lives]_vars
    /\ [][(DeathStep /\ ~CountsLives(gameState)) =>
              /\ gameState'.gameStarted
              /\ gameState'.lives = gameState.lives]_vars

\* The case of C28: a daily game is over at its third death.
C28_Witness ==
    /\ gameState.mode = "daily"
    /\ ~gameState.gameStarted
    /\ gameState.lives = 0
    /\ gameState.deaths = 3
    /\ obs.died

\* C29: while a game is running, in every mode and after any number of level
\* completions, deaths and restarts, currentLevel.seed equals
\* currentLevelNumber, so that the level KeyR / restartLevel generate is the
\* level being played.
C29_RestartReproducesLevel ==
    gameState.gameStarted =>
        /\ currentLevel.seed = gameState.currentLevelNumber
        /\ LoadLevel(gameState.currentLevelNumber) = currentLevel

====
